---- MODULE Spec2Model ----
(***************************************************************************)
(* Worktree lifecycle and checkpoint engine of catnip's container service: *)
(* the title-event ingestor (log tailer and NotifyTitleChange), the        *)
(* cross-source dedup map, the map of per-worktree checkpoint managers,    *)
(* the debounce timer, the branch graduation worker and the git commands   *)
(* they issue.                                                             *)
(*                                                                         *)
(* Strings are sequences of one-character strings (a run of letters may   *)
(* stand as one element), so that cleanTitle, the dedup key and the branch *)
(* predicates are computed as the code computes them.  Time is counted in  *)
(* whole seconds.                                                          *)
(***************************************************************************)
EXTENDS Integers, Sequences, FiniteSets, TLC

VARIABLES
    now,                \* wall clock, seconds (time.Now())
    recentTitles,       \* ClaudeMonitorService.recentTitles: key -> titleEvent
    hist,               \* history: the events that entered handleTitleChange,
                        \* kept when `record` is set
    record,             \* whether hist is kept in this run
    nEvents,            \* number of events that passed the dedup stage
    th,                 \* the two ingesting callers: "log" tailer, "pty" notifier
    checkpointManagers, \* ClaudeMonitorService.checkpointManagers: workDir -> manager
    mgr,                \* every WorktreeCheckpointManager ever created (a sequence)
    processed,          \* history, per worktree: the event HandleTitleChange ran last
    git,                \* per worktree: the git repository as the CLI shows it
    session,            \* per worktree: the Session Store's title entries
    registry,           \* per worktree: the Registry's Worktree record
    edits,              \* number of edits the agent has made (bounds the run)
    lastGit,            \* history: what GitAddCommitGetHash returned to the step
                        \* that led here (error, hash); NoResult without a call
    ctIn, ctOut,        \* input and results of the checks of the pure functions
    sup,                \* ClaudeMonitorService.Stop: "running", "stopping" (inside
                        \* Stop, holding managersMutex) or "stopped" (returned);
                        \* "crashed" once the process was ended by a panic
    worktrees,          \* GitService.worktrees: the registered worktree paths
    lastRename,         \* history: number of calls of TriggerBranchRename made, the
                        \* custom name of the last one and the error it returned
    mu,                 \* GitService.mu: the operation holding the write lock and
                        \* the operations holding the read lock
    ops,                \* where MergeWorktreeToMain, SyncWorktree and
                        \* CleanupMergedWorktrees stand
    access,             \* history: the last access to the Registry made by one of
                        \* them, and whether it held the lock the access needs
    workspaceDirEnv,    \* the environment variable CATNIP_WORKSPACE_DIR, <<>> when
                        \* it is not set
    titlesLog,          \* the title events log and its reader: the file, the
                        \* reader's lastLogPosition, whether readTitlesLog is
                        \* running, the scanner's offset and the line it gave last
    saved               \* state.json, given as the map of worktrees that the last
                        \* saveState wrote (at the start: that loadState read)

ingestVars == <<now, recentTitles, hist, record, nEvents, th>>
mgrVars    == <<checkpointManagers, mgr, processed>>
repoVars   == <<git, session, registry, edits>>
cleanVars  == <<ctIn, ctOut>>
lockVars   == <<mu, ops, access>>
cfgVars    == <<workspaceDirEnv, titlesLog, saved>>
supVars    == <<sup, worktrees, lastRename, lockVars, cfgVars>>
vars       == <<now, recentTitles, hist, record, nEvents, th, checkpointManagers,
                mgr, processed,
                git, session, registry, edits, lastGit, ctIn, ctOut, sup, worktrees,
                lastRename, mu, ops, access, workspaceDirEnv, titlesLog,
                saved>>

----------------------------------------------------------------------------
(* Bounds of the model *)

MaxLen    == 3   \* longest raw title of the normalization check
MaxTime   == 6   \* the clock stops here
MaxEvents == 2   \* title events ingested in one run
MaxMgrs   == 2   \* managers created in one run
MaxEdits  == 1   \* edits of the working tree in one run
MaxRenames == 1  \* calls of TriggerBranchRename in one run
MaxNameLen == 3  \* longest branch name of the validation check
MaxEntries == 2  \* most entries of a Registry map in the persistence check
MaxSyncs   == 2  \* commits brought in by SyncWorktree in one run
MaxPathLen == 6  \* longest worktree path of the transcript directory check
MaxLines   == 2  \* most lines of the title events log
MaxTimers  == 1  \* timers left over and callbacks under way beyond which no
                 \* further title event is taken in the run with endless events

(* Program constants *)

EvictAfter == 5  \* seconds an entry stays in recentTitles
PtyWindow  == 2  \* seconds within which a pty event is a duplicate
MaxBranchLen   == 100  \* longest branch name isValidGitBranchName accepts
CollisionLimit == 100  \* value of the counter at which the collision loop gives up

----------------------------------------------------------------------------
(* Strings *)

Glyph == "g"     \* stands for the sparkle glyph U+2733
Chars == {"*", " ", Glyph, "a"}

RECURSIVE SeqsUpTo(_)
SeqsUpTo(n) ==
    IF n = 0 THEN {<<>>}
    ELSE LET shorter == SeqsUpTo(n - 1)
         IN  shorter \cup {Append(s, c) : s \in {x \in shorter : Len(x) = n - 1},
                                          c \in Chars}

IsSpace(c) == c = " "

RECURSIVE TrimLeft(_)
TrimLeft(s) ==
    IF s # <<>> /\ IsSpace(Head(s)) THEN TrimLeft(Tail(s)) ELSE s

RECURSIVE TrimRight(_)
TrimRight(s) ==
    IF s # <<>> /\ IsSpace(s[Len(s)]) THEN TrimRight(SubSeq(s, 1, Len(s) - 1)) ELSE s

TrimSpace(s) == TrimRight(TrimLeft(s))

RemoveAll(s, c) == SelectSeq(s, LAMBDA x : x # c)

HasPrefix(s, p) == Len(s) >= Len(p) /\ SubSeq(s, 1, Len(p)) = p

TrimPrefix(s, p) == IF HasPrefix(s, p) THEN SubSeq(s, Len(p) + 1, Len(s)) ELSE s

cleanTitle(title) ==
    TrimSpace(TrimPrefix(TrimSpace(RemoveAll(title, Glyph)), <<"*">>))

----------------------------------------------------------------------------
(* The environment: directories, titles, branch names *)

Worktree   == <<"workspace", "foo", "alpha">>  \* /workspace/foo/alpha, holds .git
NoGitDir   == <<"workspace", "foo">>           \* under /workspace, no .git
OutsideDir == <<"data", "alpha">>              \* /data/alpha, holds .git
Cwds       == {Worktree, NoGitDir, OutsideDir}
GitDirs    == {Worktree, OutsideDir}           \* directories with a .git entry
Worktrees  == {Worktree}

RawTitles  == {<<"a">>, <<"*", "*">>, <<Glyph, " ">>}

Threads    == {"log", "pty"}                   \* a caller's source is its name

ScratchBranch == <<"catnip", "/", "otter">>
LoginBranch   == <<"feature", "/", "login">>

isWorktreeDirectory(dir) ==
    /\ HasPrefix(dir, <<"workspace">>) /\ Len(dir) > 1
    /\ dir \in GitDirs

defaultWorkspaceDir == <<"workspace">>

(* the values of CATNIP_WORKSPACE_DIR: not set, /workspace, /data *)
WorkspaceDirEnvs == {<<>>, <<"workspace">>, <<"data">>}

getWorkspaceDir ==
    IF workspaceDirEnv # <<>> THEN workspaceDirEnv ELSE defaultWorkspaceDir

----------------------------------------------------------------------------
(* Cross-source dedup: handleTitleChange up to the release of recentTitlesMutex *)

Key(workDir, newTitle) == workDir \o <<":">> \o newTitle

Evicted(rt, t) ==
    LET kept == {k \in DOMAIN rt : ~(rt[k].timestamp < t - EvictAfter)}
    IN  [k \in kept |-> rt[k]]

(* a variant that drops a pty event whenever an entry is left, whatever its
   age *)
isRecentDuplicateAnySource(rt, key, source, t) ==
    /\ key \in DOMAIN rt
    /\ \/ source = "log" /\ rt[key].source = "log"
       \/ source = "pty"

(* a variant that applies the pty window to log events as well *)
isRecentDuplicateShortLog(rt, key, source, t) ==
    /\ key \in DOMAIN rt
    /\ \/ source = "log" /\ rt[key].source = "log" /\ t - rt[key].timestamp < PtyWindow
       \/ source = "pty" /\ t - rt[key].timestamp < PtyWindow

isRecentDuplicate(rt, key, source, t) ==
    /\ key \in DOMAIN rt
    /\ \/ source = "log" /\ rt[key].source = "log"
       \/ source = "pty" /\ t - rt[key].timestamp < PtyWindow

(* what GitAddCommitGetHash returns when there is nothing to commit: the
   empty hash (0) and no error *)
NoResult == [err |-> FALSE, hash |-> 0]

IdleThread == [pc |-> "idle", workDir |-> <<>>, title |-> <<>>, ev |-> 0, m |-> 0]

(* a variant that records the event in recentTitles also when it drops it *)
handleTitleChangeDedupRefreshing(t, workDir, newTitle, source) ==
    LET key == Key(workDir, newTitle)
        rt  == Evicted(recentTitles, now)
        dup == isRecentDuplicate(rt, key, source, now)
        ev  == [workDir |-> workDir, title |-> newTitle, source |-> source,
                time |-> now, fwd |-> ~dup]
    IN  /\ hist' = IF record THEN Append(hist, ev) ELSE hist
        /\ nEvents' = IF dup THEN nEvents ELSE nEvents + 1
        /\ recentTitles' =
               (key :> [title |-> newTitle, timestamp |-> now, source |-> source]) @@ rt
        /\ IF dup
           THEN th' = th
           ELSE th' = [th EXCEPT ![t] = [pc |-> "lookup", workDir |-> workDir,
                                         title |-> newTitle, ev |-> nEvents + 1,
                                         m |-> 0]]

handleTitleChangeDedup(t, workDir, newTitle, source) ==
    LET key == Key(workDir, newTitle)
        rt  == Evicted(recentTitles, now)
        dup == isRecentDuplicate(rt, key, source, now)
        ev  == [workDir |-> workDir, title |-> newTitle, source |-> source,
                time |-> now, fwd |-> ~dup]
    IN  /\ hist' = IF record THEN Append(hist, ev) ELSE hist
        /\ nEvents' = IF dup THEN nEvents ELSE nEvents + 1
        /\ IF dup
           THEN /\ recentTitles' = rt
                /\ th' = th
           ELSE /\ recentTitles' =
                       (key :> [title |-> newTitle, timestamp |-> now, source |-> source])
                       @@ rt
                /\ th' = [th EXCEPT ![t] = [pc |-> "lookup", workDir |-> workDir,
                                            title |-> newTitle, ev |-> nEvents + 1,
                                            m |-> 0]]

(* the bound of a run: MaxEvents events forwarded, or entered when hist is kept *)
MayIngest == IF record THEN Len(hist) < MaxEvents ELSE nEvents < MaxEvents

(* everything but the reader of the log *)
exceptLog == <<mgrVars, repoVars, cleanVars, sup, worktrees, lastRename, lockVars,
               workspaceDirEnv, saved>>

(* readTitlesLog, lines 196-207: an entry with its cwd and title *)
ProcessLogEntry(cwd, raw) ==
    /\ th["log"].pc = "idle"
    /\ MayIngest
    /\ IF isWorktreeDirectory(cwd) /\ cleanTitle(raw) # <<>>
       THEN /\ handleTitleChangeDedup("log", cwd, cleanTitle(raw), "log")
            /\ UNCHANGED <<now, record, exceptLog>>
       ELSE UNCHANGED <<ingestVars, exceptLog>>
    /\ lastGit' = NoResult

(* readTitlesLog, one line of the log with cwd and title, the file left aside *)
ReadTitlesLogLine(cwd, raw) ==
    /\ ProcessLogEntry(cwd, raw)
    /\ UNCHANGED titlesLog

(* The file is a sequence of characters, "t" and "p" standing for a timestamp
   and a pid; a path stands as its components. *)

TooLongRun == "L"   \* stands for a run of 65536 letters (bufio.MaxScanTokenSize)

Entry(cwd, title) == <<"t", "|", "p", "|">> \o cwd \o <<"|">> \o title

(* the lines written to the log: a good entry, one whose title normalizes to
   the empty string, one with a "|" in its title, one without pid, an empty
   line, a line of 64 KiB, an entry of a directory that is no worktree *)
LogLines ==
    {Entry(Worktree, <<"a">>), Entry(Worktree, <<Glyph, " ">>),
     Entry(Worktree, <<"a", "|", "a">>), <<"t", "|">> \o Worktree \o <<"|", "a">>,
     <<>>, <<TooLongRun>>, Entry(OutsideDir, <<"a">>)}

(* the files of at most n lines, each line ended by a newline *)
RECURSIVE LogFiles(_)
LogFiles(n) ==
    IF n = 0 THEN {<<>>}
    ELSE LET shorter == LogFiles(n - 1)
         IN  shorter \cup {f \o l \o <<"\n">> : f \in shorter, l \in LogLines}

(* the index of the first sep in s, 0 when there is none *)
Index(s, sep) ==
    IF \E i \in 1..Len(s) : s[i] = sep
    THEN CHOOSE i \in 1..Len(s) : s[i] = sep /\ \A j \in 1..(i - 1) : s[j] # sep
    ELSE 0

(* strings.Split for a one-character sep *)
RECURSIVE Split(_, _)
Split(s, sep) ==
    IF Index(s, sep) = 0 THEN <<s>>
    ELSE <<SubSeq(s, 1, Index(s, sep) - 1)>>
         \o Split(SubSeq(s, Index(s, sep) + 1, Len(s)), sep)

(* bufio.Scanner.Scan with the default buffer, on the file from offset on:
   the next line without its newline and the offset after it; no token at the
   end of the file; no token either when 65536 bytes hold no newline, the file
   being read up to there.  The long run stands at the start of its line. *)
Scan(file, offset) ==
    LET rest == SubSeq(file, offset + 1, Len(file))
        nl   == Index(rest, "\n")
        line == IF nl = 0 THEN rest ELSE SubSeq(rest, 1, nl - 1)
    IN  IF rest = <<>> THEN [ok |-> FALSE, line |-> <<>>, offset |-> offset]
        ELSE IF Head(rest) = TooLongRun
             THEN [ok |-> FALSE, line |-> <<>>, offset |-> offset + 1]
             ELSE [ok |-> TRUE, line |-> line,
                   offset |-> IF nl = 0 THEN Len(file) ELSE offset + nl]

NoLog == [file |-> <<>>, lastLogPosition |-> 0, reading |-> FALSE, offset |-> 0,
          line |-> <<>>]

(* readTitlesLog up to the loop: os.Open and Seek(lastLogPosition), called for
   a write event of the watcher *)
ReadTitlesLogOpen ==
    /\ ~titlesLog.reading
    /\ titlesLog' = [titlesLog EXCEPT !.reading = TRUE, !.offset = titlesLog.lastLogPosition,
                                      !.line = <<>>]
    /\ lastGit' = NoResult
    /\ UNCHANGED <<ingestVars, exceptLog>>

(* one turn of the loop of readTitlesLog, from scanner.Scan() on; when Scan
   returns false the position is saved and readTitlesLog returns *)
ReadTitlesLogScan ==
    /\ titlesLog.reading
    /\ th["log"].pc = "idle"
    /\ LET tok   == Scan(titlesLog.file, titlesLog.offset)
           parts == Split(tok.line, "|")
       IN  IF ~tok.ok
           THEN /\ titlesLog' = [titlesLog EXCEPT !.reading = FALSE,
                                                  !.lastLogPosition = tok.offset,
                                                  !.offset = tok.offset,
                                                  !.line = <<>>]
                /\ lastGit' = NoResult
                /\ UNCHANGED <<ingestVars, exceptLog>>
           ELSE /\ titlesLog' = [titlesLog EXCEPT !.offset = tok.offset,
                                                  !.line = tok.line]
                /\ IF tok.line = <<>> \/ Len(parts) # 4
                   THEN /\ lastGit' = NoResult
                        /\ UNCHANGED <<ingestVars, exceptLog>>
                   ELSE ProcessLogEntry(parts[3], parts[4])

(* a variant that forwards a title that is empty after cleaning *)
NotifyTitleChangeAnyTitle(workDir, raw) ==
    /\ th["pty"].pc = "idle"
    /\ MayIngest
    /\ IF isWorktreeDirectory(workDir)
       THEN /\ handleTitleChangeDedup("pty", workDir, cleanTitle(raw), "pty")
            /\ UNCHANGED <<now, record, mgrVars, repoVars, cleanVars, supVars>>
       ELSE UNCHANGED <<ingestVars, mgrVars, repoVars, cleanVars, supVars>>
    /\ lastGit' = NoResult

NotifyTitleChange(workDir, raw) ==
    /\ th["pty"].pc = "idle"
    /\ MayIngest
    /\ IF isWorktreeDirectory(workDir) /\ cleanTitle(raw) # <<>>
       THEN /\ handleTitleChangeDedup("pty", workDir, cleanTitle(raw), "pty")
            /\ UNCHANGED <<now, record, mgrVars, repoVars, cleanVars, supVars>>
       ELSE UNCHANGED <<ingestVars, mgrVars, repoVars, cleanVars, supVars>>
    /\ lastGit' = NoResult

Tick ==
    /\ now < MaxTime
    /\ now' = now + 1
    /\ UNCHANGED <<recentTitles, hist, record, nEvents, th, mgrVars, repoVars,
                   cleanVars, supVars>>
    /\ lastGit' = NoResult

----------------------------------------------------------------------------
(* The git repository of a worktree, as the git CLI shows it.              *)
(*   commits  messages of the commits on HEAD, oldest first                *)
(*   staged   the index holds staged changes                               *)
(*   dirty    the working tree holds changes that are not staged           *)
(*   head     the branch `git status -b` names                             *)
(*   detached rev-parse --symbolic-full-name HEAD prints an object hash    *)
(*   branches the names for which BranchExists answers true                *)

GitOutcomes == {"ok", "notRepo", "addFails", "commitFails", "revParseFails"}

HasUncommittedChanges(g) == g.staged \/ g.dirty

(* the outcomes of the git commands that can be told apart in repository g:
   with nothing to stage or commit, only `git add` can fail *)
CommitOutcomes(g) ==
    IF HasUncommittedChanges(g) THEN GitOutcomes ELSE {"ok", "addFails"}

(* `git status` is only run when HEAD is detached *)
StatusOutcomes(g) == IF g.detached THEN BOOLEAN ELSE {TRUE}

(* the result of GitAddCommitGetHash: the repository afterwards, the hash
   returned (0 for the empty string; a commit's hash is its position) and
   whether an error was returned *)
GitAddCommitGetHash(g, message, outcome) ==
    IF outcome = "notRepo" THEN [git |-> g, hash |-> 0, err |-> FALSE]
    ELSE IF outcome = "addFails" THEN [git |-> g, hash |-> 0, err |-> TRUE]
    ELSE LET added == [g EXCEPT !.staged = g.staged \/ g.dirty, !.dirty = FALSE]
         IN  IF ~added.staged THEN [git |-> added, hash |-> 0, err |-> FALSE]
             ELSE IF outcome = "commitFails"
                  THEN [git |-> added, hash |-> 0, err |-> TRUE]
                  ELSE LET done == [added EXCEPT !.commits = Append(@, message),
                                                 !.staged = FALSE]
                       IN  IF outcome = "revParseFails"
                           THEN [git |-> done, hash |-> 0, err |-> TRUE]
                           ELSE [git |-> done, hash |-> Len(done.commits),
                                 err |-> FALSE]

----------------------------------------------------------------------------
(* Session Store and Registry *)

GetPreviousTitle(s) == IF s = <<>> THEN <<>> ELSE s[Len(s)].title

UpdateSessionTitle(s, title, commitHash) ==
    IF s # <<>> /\ s[Len(s)].title = title
    THEN IF commitHash # 0 THEN [s EXCEPT ![Len(s)].hash = commitHash] ELSE s
    ELSE Append(s, [title |-> title, hash |-> commitHash])

UpdatePreviousTitleCommitHash(s, commitHash) ==
    IF s = <<>> THEN s ELSE [s EXCEPT ![Len(s)].hash = commitHash]

RefreshWorktreeStatus(r, g) ==
    [r EXCEPT !.commitCount = Len(g.commits), !.dirty = HasUncommittedChanges(g)]

UpdateWorktreeBranchName(r, newBranchName) == [r EXCEPT !.branch = newBranchName]

----------------------------------------------------------------------------
(* WorktreeCheckpointManager.                                              *)
(*   checkpointTimer  the timer the handle names: "nil", "armed", "fired"  *)
(*                    (its callback was started) or "stopped"              *)
(*   orphans          armed timers the handle no longer names              *)
(*   waiting          started callbacks that wait for timerMutex           *)
(*   lock             holder of timerMutex across steps: "free" or "timer" *)
(*   cb               the callback holding the lock: "none", "checkpoint"  *)
(*   gw, tw           the graduation worker goroutines                     *)
(*   stopped          history: Stop of this manager has returned           *)

NoWorker == [pc |-> "none", title |-> <<>>, cur |-> <<>>, new |-> <<>>]

createCheckpointManager(workDir) ==
    [workDir |-> workDir, currentTitle |-> <<>>, checkpointTimer |-> "nil",
     renamingInProgress |-> FALSE, lock |-> "free", orphans |-> 0, waiting |-> 0,
     cb |-> "none", gw |-> NoWorker, tw |-> NoWorker, stopped |-> FALSE]

(* a variant that never consults the map *)
managerForAlwaysNew(workDir) == Len(mgr) + 1

(* lines 268-273: the manager of workDir, a new one when the map has none *)
managerFor(workDir) ==
    IF workDir \in DOMAIN checkpointManagers
    THEN checkpointManagers[workDir]
    ELSE Len(mgr) + 1

(* handleTitleChange between managersMutex.Lock and Unlock *)
GetOrCreateManager(t) ==
    /\ th[t].pc = "lookup"
    /\ sup # "stopping"
    /\ LET workDir == th[t].workDir
           m       == managerFor(workDir)
       IN  /\ m <= MaxMgrs
           /\ IF m > Len(mgr)
              THEN /\ mgr' = Append(mgr, createCheckpointManager(workDir))
                   /\ checkpointManagers' = (workDir :> m) @@ checkpointManagers
              ELSE UNCHANGED <<mgr, checkpointManagers>>
           /\ th' = [th EXCEPT ![t].pc = "handle", ![t].m = m]
    /\ UNCHANGED <<now, recentTitles, hist, record, nEvents, processed, repoVars,
                   cleanVars, supVars>>
    /\ lastGit' = NoResult

----------------------------------------------------------------------------
(* Branch of the worktree as checkAndRenameBranch and isCurrentBranchCatnip
   find it *)

HashOutput == <<"#">>     \* an object hash: 40 characters, no "/"

currentBranchName(g, statusOk) ==
    IF g.detached
    THEN IF statusOk THEN g.head ELSE HashOutput
    ELSE g.head

IsCatnipBranch(branchName) == HasPrefix(branchName, <<"catnip", "/">>)

isCurrentBranchCatnip(g, revParseOk, statusOk) ==
    revParseOk /\ IsCatnipBranch(currentBranchName(g, statusOk))

----------------------------------------------------------------------------
(* Commits made by the manager *)

(* a variant that commits but does not record the hash in the session *)
commitPreviousWorkUnrecorded(g, s, r, title, outcome) ==
    LET c == GitAddCommitGetHash(g, title, outcome)
    IN  [git |-> c.git, session |-> s,
         registry |-> IF ~c.err /\ c.hash # 0 THEN RefreshWorktreeStatus(r, c.git) ELSE r,
         ret |-> [err |-> c.err, hash |-> c.hash]]

(* a variant that refreshes the worktree status whatever git answered *)
commitPreviousWorkAlwaysRefreshing(g, s, r, title, outcome) ==
    LET c == GitAddCommitGetHash(g, title, outcome)
    IN  [git |-> c.git,
         session |-> IF ~c.err /\ c.hash # 0
                     THEN UpdatePreviousTitleCommitHash(s, c.hash) ELSE s,
         registry |-> RefreshWorktreeStatus(r, c.git),
         ret |-> [err |-> c.err, hash |-> c.hash]]

commitPreviousWork(g, s, r, title, outcome) ==
    LET c == GitAddCommitGetHash(g, title, outcome)
    IN  IF ~c.err /\ c.hash # 0
        THEN [git |-> c.git, session |-> UpdatePreviousTitleCommitHash(s, c.hash),
              registry |-> RefreshWorktreeStatus(r, c.git),
              ret |-> [err |-> c.err, hash |-> c.hash]]
        ELSE [git |-> c.git, session |-> s, registry |-> r,
              ret |-> [err |-> c.err, hash |-> c.hash]]

CreateCheckpoint(g, s, r, title, outcome) ==
    LET c == GitAddCommitGetHash(g, title, outcome)
    IN  IF ~c.err /\ c.hash # 0
        THEN [git |-> c.git, session |-> UpdateSessionTitle(s, title, c.hash),
              registry |-> RefreshWorktreeStatus(r, c.git),
              ret |-> [err |-> c.err, hash |-> c.hash]]
        ELSE [git |-> c.git, session |-> s, registry |-> r,
              ret |-> [err |-> c.err, hash |-> c.hash]]

startCheckpointTimer(mrec) ==
    [mrec EXCEPT !.checkpointTimer = "armed",
                 !.orphans = @ + (IF mrec.checkpointTimer = "armed" THEN 1 ELSE 0)]

stopTimer(mrec) ==
    [mrec EXCEPT !.checkpointTimer = IF @ = "armed" THEN "stopped" ELSE @]

(* WorktreeCheckpointManager.HandleTitleChange, all of it under timerMutex *)
HandleTitleChange(t) ==
    /\ th[t].pc = "handle"
    /\ mgr[th[t].m].lock = "free"
    /\ \E outcome \in CommitOutcomes(git[mgr[th[t].m].workDir]),
          revParseOk \in BOOLEAN,
          statusOk \in StatusOutcomes(git[mgr[th[t].m].workDir]) :
          LET m        == th[t].m
              w        == mgr[m].workDir
              newTitle == th[t].title
              previousTitle == GetPreviousTitle(session[w])
              c  == IF previousTitle # <<>> /\ previousTitle # newTitle
                    THEN commitPreviousWork(git[w], session[w], registry[w],
                             previousTitle, outcome)
                    ELSE [git |-> git[w], session |-> session[w],
                          registry |-> registry[w], ret |-> NoResult]
              m1 == stopTimer([mgr[m] EXCEPT !.currentTitle = newTitle])
              m2 == IF /\ ~m1.renamingInProgress
                       /\ m1.currentTitle # <<>>
                       /\ isCurrentBranchCatnip(c.git, revParseOk, statusOk)
                    THEN [m1 EXCEPT !.renamingInProgress = TRUE,
                                    !.gw = [NoWorker EXCEPT !.pc = "start",
                                                            !.title = newTitle]]
                    ELSE m1
          IN  /\ git' = [git EXCEPT ![w] = c.git]
              /\ session' = [session EXCEPT
                                ![w] = UpdateSessionTitle(c.session, newTitle, 0)]
              /\ registry' = [registry EXCEPT ![w] = c.registry]
              /\ mgr' = [mgr EXCEPT ![m] = startCheckpointTimer(m2)]
              /\ processed' = [processed EXCEPT ![w] = th[t].ev]
              /\ lastGit' = c.ret
    /\ th' = [th EXCEPT ![t] = IdleThread]
    /\ UNCHANGED <<now, recentTitles, hist, record, nEvents, checkpointManagers,
                   edits, cleanVars, supVars>>

----------------------------------------------------------------------------
(* The debounce timer *)

TimerFire(m) ==
    /\ m \in DOMAIN mgr
    /\ \/ /\ mgr[m].checkpointTimer = "armed"
          /\ mgr' = [mgr EXCEPT ![m].checkpointTimer = "fired", ![m].waiting = @ + 1]
       \/ /\ mgr[m].orphans > 0
          /\ mgr' = [mgr EXCEPT ![m].orphans = @ - 1, ![m].waiting = @ + 1]
    /\ UNCHANGED <<ingestVars, checkpointManagers, processed, repoVars, cleanVars, supVars>>
    /\ lastGit' = NoResult

(* the callback from timerMutex.Lock to the call of CreateCheckpoint, or to
   its return when there is nothing to commit *)
TimerCallback(m) ==
    /\ m \in DOMAIN mgr
    /\ mgr[m].waiting > 0
    /\ mgr[m].lock = "free"
    /\ \E statusFails \in BOOLEAN :
          LET m1 == [mgr[m] EXCEPT !.waiting = @ - 1]
          IN  mgr' = [mgr EXCEPT ![m] =
                 IF m1.currentTitle = <<>> THEN m1
                 ELSE IF ~statusFails /\ HasUncommittedChanges(git[m1.workDir])
                      THEN [m1 EXCEPT !.lock = "timer", !.cb = "checkpoint"]
                      ELSE startCheckpointTimer(m1)]
    /\ UNCHANGED <<ingestVars, checkpointManagers, processed, repoVars, cleanVars, supVars>>
    /\ lastGit' = NoResult

(* a variant that restarts the timer only when the checkpoint succeeded *)
TimerCheckpointGivesUp(m) ==
    /\ m \in DOMAIN mgr
    /\ mgr[m].cb = "checkpoint"
    /\ \E outcome \in CommitOutcomes(git[mgr[m].workDir]) :
          LET w == mgr[m].workDir
              c == CreateCheckpoint(git[w], session[w], registry[w],
                                    mgr[m].currentTitle, outcome)
              released == [mgr[m] EXCEPT !.lock = "free", !.cb = "none"]
          IN  /\ git' = [git EXCEPT ![w] = c.git]
              /\ session' = [session EXCEPT ![w] = c.session]
              /\ registry' = [registry EXCEPT ![w] = c.registry]
              /\ mgr' = [mgr EXCEPT ![m] =
                     IF c.ret.err THEN released ELSE startCheckpointTimer(released)]
              /\ lastGit' = c.ret
    /\ UNCHANGED <<ingestVars, checkpointManagers, processed, edits, cleanVars, supVars>>

(* a variant whose callback looks its manager up in checkpointManagers, under
   managersMutex, before it restarts the timer *)
TimerCheckpointViaManagerMap(m) ==
    /\ m \in DOMAIN mgr
    /\ mgr[m].cb = "checkpoint"
    /\ sup # "stopping"
    /\ \E outcome \in CommitOutcomes(git[mgr[m].workDir]) :
          LET w == mgr[m].workDir
              c == CreateCheckpoint(git[w], session[w], registry[w],
                                    mgr[m].currentTitle, outcome)
          IN  /\ git' = [git EXCEPT ![w] = c.git]
              /\ session' = [session EXCEPT ![w] = c.session]
              /\ registry' = [registry EXCEPT ![w] = c.registry]
              /\ mgr' = [mgr EXCEPT ![m] =
                     startCheckpointTimer([mgr[m] EXCEPT !.lock = "free",
                                                         !.cb = "none"])]
              /\ lastGit' = c.ret
    /\ UNCHANGED <<ingestVars, checkpointManagers, processed, edits, cleanVars, supVars>>

(* the callback from CreateCheckpoint to timerMutex.Unlock *)
TimerCheckpoint(m) ==
    /\ m \in DOMAIN mgr
    /\ mgr[m].cb = "checkpoint"
    /\ \E outcome \in CommitOutcomes(git[mgr[m].workDir]) :
          LET w == mgr[m].workDir
              c == CreateCheckpoint(git[w], session[w], registry[w],
                                    mgr[m].currentTitle, outcome)
          IN  /\ git' = [git EXCEPT ![w] = c.git]
              /\ session' = [session EXCEPT ![w] = c.session]
              /\ registry' = [registry EXCEPT ![w] = c.registry]
              /\ mgr' = [mgr EXCEPT ![m] =
                     startCheckpointTimer([mgr[m] EXCEPT !.lock = "free",
                                                         !.cb = "none"])]
              /\ lastGit' = c.ret
    /\ UNCHANGED <<ingestVars, checkpointManagers, processed, edits, cleanVars, supVars>>

(* the coding agent changes files of the worktree, making a clean tree dirty *)
AgentEdit(w) ==
    /\ edits < MaxEdits
    /\ w \in worktrees
    /\ ~git[w].dirty
    /\ edits' = edits + 1
    /\ git' = [git EXCEPT ![w].dirty = TRUE]
    /\ UNCHANGED <<ingestVars, mgrVars, session, registry, cleanVars, supVars>>
    /\ lastGit' = NoResult

----------------------------------------------------------------------------
(* Branch graduation *)

RefsHeads == <<"refs", "/", "heads", "/">>

FixBranch  == <<"fix", "/", "cache">>
BadBranch  == <<"fix", " ", "cache">>

(* what CreateCompletion can give back: an error (or the 60 s deadline), or a
   response string *)
LLMResponses == {<<>>, <<" ">> \o LoginBranch, FixBranch, BadBranch}
LLMOutcomes  == {[err |-> TRUE, response |-> <<>>]}
                \cup {[err |-> FALSE, response |-> r] : r \in LLMResponses}

BranchExists(bs, branch) ==
    \/ branch \in bs
    \/ HasPrefix(branch, RefsHeads) /\ TrimPrefix(branch, RefsHeads) \in bs

(* strings.Contains: substr occurs in s *)
Contains(s, substr) ==
    \E i \in 1..(Len(s) - Len(substr) + 1) :
        SubSeq(s, i, i + Len(substr) - 1) = substr

HasSuffix(s, p) == Len(s) >= Len(p) /\ SubSeq(s, Len(s) - Len(p) + 1, Len(s)) = p

(* len(s) in bytes: an element of a name is one character or a run of
   letters *)
RECURSIVE ByteLen(_)
ByteLen(s) == IF s = <<>> THEN 0 ELSE Len(Head(s)) + ByteLen(Tail(s))

InvalidPatterns ==
    {<<".", ".">>, <<"~">>, <<"^">>, <<":">>, <<"?">>, <<"*">>, <<"[">>, <<"\\">>,
     <<" ">>}

(* git check-ref-format refs/heads/<name>: no "..", none of space ~ ^ : ? * [
   and backslash, no component that is empty or begins with ".", no "/" or
   "." at the end *)
checkRefFormat(branchName) ==
    LET ref == RefsHeads \o branchName
    IN  /\ \A i \in 1..Len(ref) :
              /\ ref[i] \notin {" ", "~", "^", ":", "?", "*", "[", "\\"}
              /\ ref[i] = "." => i < Len(ref) /\ ref[i + 1] # "."
              /\ ref[i] = "/" => i < Len(ref) /\ ref[i + 1] \notin {"/", "."}

(* a run of 99 letters *)
LongRun ==
    "aaaaaaaaaaaaaaaaaaaaaaaaaaaaaaaaaaaaaaaaaaaaaaaaaaaaaaaaaaaaaaaaaaaaaaaaaaaaaaaaaaaaaaaaaaaaaaaaaaa"

NameChars ==
    {"a", "/", ".", "-", " ", "~", "^", ":", "?", "*", "[", "\\", LongRun, "catnip"}

RECURSIVE NamesUpTo(_)
NamesUpTo(n) ==
    IF n = 0 THEN {<<>>}
    ELSE LET shorter == NamesUpTo(n - 1)
         IN  shorter \cup {Append(s, c) : s \in {x \in shorter : Len(x) = n - 1},
                                          c \in NameChars}

(* a variant without the upper limit on the length *)
isValidGitBranchNameAnyLength(branchName) ==
    IF ByteLen(branchName) = 0 THEN FALSE
    ELSE IF ~checkRefFormat(branchName) THEN FALSE
    ELSE IF \E pattern \in InvalidPatterns : Contains(branchName, pattern) THEN FALSE
    ELSE IF \/ HasPrefix(branchName, <<"/">>) \/ HasSuffix(branchName, <<"/">>)
            \/ HasPrefix(branchName, <<".">>) \/ HasSuffix(branchName, <<".">>)
         THEN FALSE
    ELSE TRUE

isValidGitBranchName(branchName) ==
    IF ByteLen(branchName) = 0 \/ ByteLen(branchName) > MaxBranchLen THEN FALSE
    ELSE IF ~checkRefFormat(branchName) THEN FALSE
    ELSE IF \E pattern \in InvalidPatterns : Contains(branchName, pattern) THEN FALSE
    ELSE IF \/ HasPrefix(branchName, <<"/">>) \/ HasSuffix(branchName, <<"/">>)
            \/ HasPrefix(branchName, <<".">>) \/ HasSuffix(branchName, <<".">>)
         THEN FALSE
    ELSE TRUE

Numbered(newBranch, counter) == newBranch \o <<"-", ToString(counter)>>

(* lines 505-516: the first free name, or <<>> when the loop gives up *)
RECURSIVE resolveCollision(_, _, _, _)
resolveCollision(bs, newBranch, finalBranch, counter) ==
    IF BranchExists(bs, finalBranch) \/ BranchExists(bs, RefsHeads \o finalBranch)
    THEN IF counter + 1 > CollisionLimit
         THEN <<>>
         ELSE resolveCollision(bs, newBranch, Numbered(newBranch, counter),
                               counter + 1)
    ELSE finalBranch

(* a variant that takes the name as it is, taken or not *)
resolveCollisionCustomUnchecked(bs, customBranchName, finalBranch, counter) ==
    finalBranch

(* lines 663-672: the same loop in TriggerBranchRename *)
RECURSIVE resolveCollisionCustom(_, _, _, _)
resolveCollisionCustom(bs, customBranchName, finalBranch, counter) ==
    IF BranchExists(bs, finalBranch) \/ BranchExists(bs, RefsHeads \o finalBranch)
    THEN IF counter + 1 > CollisionLimit
         THEN <<>>
         ELSE resolveCollisionCustom(bs, customBranchName,
                                     Numbered(customBranchName, counter), counter + 1)
    ELSE finalBranch

(* checkAndRenameBranch from the answer r of CreateCompletion to the call of
   renameBranch: the name handed to renameBranch, <<>> when it returns
   before *)
suggestBranch(r, bs) ==
    IF r.err \/ r.response = <<>> THEN <<>>
    ELSE LET newBranch == TrimSpace(r.response)
         IN  IF ~isValidGitBranchName(newBranch) THEN <<>>
             ELSE LET finalBranch == resolveCollision(bs, newBranch, newBranch, 1)
                  IN  IF \/ finalBranch = <<>>
                         \/ BranchExists(bs, finalBranch)
                         \/ BranchExists(bs, RefsHeads \o finalBranch)
                      THEN <<>>
                      ELSE finalBranch

(* TriggerBranchRename with a custom name, lines 657-677: the name handed to
   renameBranch, <<>> when an error is returned before *)
customBranch(customBranchName, bs) ==
    IF ~isValidGitBranchName(customBranchName) THEN <<>>
    ELSE resolveCollisionCustom(bs, customBranchName, customBranchName, 1)

(* The goroutines that run checkAndRenameBranch: slot "gw" is the one started
   by HandleTitleChange, slot "tw" the one started by TriggerBranchRename. *)

(* the worker has returned and its deferred function is about to run; its
   locals are dead *)
AtExit(mrec, slot) == [mrec EXCEPT ![slot] = [NoWorker EXCEPT !.pc = "exit"]]

(* checkAndRenameBranch up to the call of CreateCompletion *)
WorkerStart(m, slot) ==
    /\ m \in DOMAIN mgr
    /\ mgr[m][slot].pc = "start"
    /\ \E revParseOk \in BOOLEAN, statusOk \in StatusOutcomes(git[mgr[m].workDir]) :
          LET currentBranch == currentBranchName(git[mgr[m].workDir], statusOk)
          IN  mgr' = [mgr EXCEPT ![m] =
                 IF cleanTitle(mgr[m][slot].title) = <<>>
                 THEN [mgr[m] EXCEPT ![slot] = NoWorker]
                 ELSE IF ~revParseOk \/ ~IsCatnipBranch(currentBranch)
                      THEN AtExit(mgr[m], slot)
                      ELSE [mgr[m] EXCEPT ![slot] = [NoWorker EXCEPT
                                                       !.pc = "llm",
                                                       !.cur = currentBranch]]]
    /\ UNCHANGED <<ingestVars, checkpointManagers, processed, repoVars, cleanVars, supVars>>
    /\ lastGit' = NoResult

(* from the answer of CreateCompletion to the call of renameBranch *)
WorkerSuggest(m, slot) ==
    /\ m \in DOMAIN mgr
    /\ mgr[m][slot].pc = "llm"
    /\ \E r \in LLMOutcomes :
          LET finalBranch == suggestBranch(r, git[mgr[m].workDir].branches)
          IN  mgr' = [mgr EXCEPT ![m] =
                 IF finalBranch = <<>>
                 THEN AtExit(mgr[m], slot)
                 ELSE [mgr[m] EXCEPT ![slot].pc = "checkout",
                                     ![slot].new = finalBranch]]
    /\ UNCHANGED <<ingestVars, checkpointManagers, processed, repoVars, cleanVars, supVars>>
    /\ lastGit' = NoResult

(* git checkout -b <new> *)
checkoutNewBranch(g, newBranchName) ==
    [g EXCEPT !.head = newBranchName, !.detached = FALSE,
              !.branches = @ \cup {newBranchName}]

(* git branch -D <old> *)
DeleteBranch(g, oldBranchName) == [g EXCEPT !.branches = @ \ {oldBranchName}]

(* renameBranch: git checkout -b <new> *)
WorkerCheckout(m, slot) ==
    /\ m \in DOMAIN mgr
    /\ mgr[m][slot].pc = "checkout"
    /\ \E ok \in BOOLEAN :
          LET w == mgr[m].workDir
          IN  IF ok
              THEN /\ git' = [git EXCEPT ![w] = checkoutNewBranch(@, mgr[m][slot].new)]
                   /\ mgr' = [mgr EXCEPT ![m][slot].pc = "delete"]
              ELSE /\ git' = git
                   /\ mgr' = [mgr EXCEPT ![m] = AtExit(mgr[m], slot)]
    /\ UNCHANGED <<ingestVars, checkpointManagers, processed, session, registry,
                   edits, cleanVars, supVars>>
    /\ lastGit' = NoResult

(* renameBranch: git branch -D <old>, whose failure is only logged *)
WorkerDelete(m, slot) ==
    /\ m \in DOMAIN mgr
    /\ mgr[m][slot].pc = "delete"
    /\ \E ok \in BOOLEAN :
          git' = [git EXCEPT ![mgr[m].workDir] =
                     IF ok THEN DeleteBranch(@, mgr[m][slot].cur) ELSE @]
    /\ mgr' = [mgr EXCEPT ![m][slot].pc = "registry"]
    /\ UNCHANGED <<ingestVars, checkpointManagers, processed, session, registry,
                   edits, cleanVars, supVars>>
    /\ lastGit' = NoResult

(* renameBranch: UpdateWorktreeBranchName, then back in checkAndRenameBranch *)
WorkerRegistry(m, slot) ==
    /\ m \in DOMAIN mgr
    /\ mgr[m][slot].pc = "registry"
    /\ registry' = [registry EXCEPT ![mgr[m].workDir] =
                       UpdateWorktreeBranchName(@, mgr[m][slot].new)]
    /\ mgr' = [mgr EXCEPT ![m] = AtExit(mgr[m], slot)]
    /\ UNCHANGED <<ingestVars, checkpointManagers, processed, git, session, edits,
                   cleanVars, supVars>>
    /\ lastGit' = NoResult

(* a variant whose deferred function clears renamingInProgress without
   taking timerMutex *)
WorkerExitUnlocked(m, slot) ==
    /\ m \in DOMAIN mgr
    /\ mgr[m][slot].pc = "exit"
    /\ mgr' = [mgr EXCEPT ![m].renamingInProgress = FALSE, ![m][slot] = NoWorker]
    /\ UNCHANGED <<ingestVars, checkpointManagers, processed, repoVars, cleanVars, supVars>>
    /\ lastGit' = NoResult

(* a variant whose deferred function leaves renamingInProgress as it is *)
WorkerExitKeepingLatch(m, slot) ==
    /\ m \in DOMAIN mgr
    /\ mgr[m][slot].pc = "exit"
    /\ mgr[m].lock = "free"
    /\ mgr' = [mgr EXCEPT ![m][slot] = NoWorker]
    /\ UNCHANGED <<ingestVars, checkpointManagers, processed, repoVars, cleanVars, supVars>>
    /\ lastGit' = NoResult

(* the deferred function of checkAndRenameBranch *)
WorkerExit(m, slot) ==
    /\ m \in DOMAIN mgr
    /\ mgr[m][slot].pc = "exit"
    /\ mgr[m].lock = "free"
    /\ mgr' = [mgr EXCEPT ![m].renamingInProgress = FALSE, ![m][slot] = NoWorker]
    /\ UNCHANGED <<ingestVars, checkpointManagers, processed, repoVars, cleanVars, supVars>>
    /\ lastGit' = NoResult


----------------------------------------------------------------------------
(* The manual entry point *)

NoRename == [n |-> 0, custom |-> <<>>, err |-> "nil"]

(* the custom names a user passes: none, a free name, one that is not a
   branch name, one that is taken *)
CustomNames == {<<>>, FixBranch, BadBranch, LoginBranch}

(* renameBranch in one piece: the repository and the Registry record
   afterwards, and whether an error is returned *)
(* a variant that leaves the Registry alone when the old branch could not be
   deleted *)
renameBranchSkippingRegistry(g, r, oldBranchName, newBranchName, checkoutOk, deleteOk) ==
    IF ~checkoutOk THEN [git |-> g, registry |-> r, err |-> TRUE]
    ELSE LET g1 == checkoutNewBranch(g, newBranchName)
         IN  IF deleteOk
             THEN [git |-> DeleteBranch(g1, oldBranchName),
                   registry |-> UpdateWorktreeBranchName(r, newBranchName),
                   err |-> FALSE]
             ELSE [git |-> g1, registry |-> r, err |-> FALSE]

renameBranch(g, r, oldBranchName, newBranchName, checkoutOk, deleteOk) ==
    IF ~checkoutOk THEN [git |-> g, registry |-> r, err |-> TRUE]
    ELSE LET g1 == checkoutNewBranch(g, newBranchName)
             g2 == IF deleteOk THEN DeleteBranch(g1, oldBranchName) ELSE g1
         IN  [git |-> g2, registry |-> UpdateWorktreeBranchName(r, newBranchName),
              err |-> FALSE]

(* ClaudeMonitorService.TriggerBranchRename(workDir, customBranchName) *)
TriggerBranchRename(workDir, customBranchName) ==
    /\ lastRename.n < MaxRenames
    /\ sup # "stopping"
    /\ \E revParseOk, checkoutOk, deleteOk \in BOOLEAN :
          LET exists == workDir \in DOMAIN checkpointManagers
              m      == checkpointManagers[workDir]
              g      == git[workDir]
              currentBranch == currentBranchName(g, FALSE)
              finalBranch   == customBranch(customBranchName, g.branches)
              rn     == renameBranch(g, registry[workDir], currentBranch, finalBranch,
                                     checkoutOk, deleteOk)
              ret(e) == lastRename' = [n |-> lastRename.n + 1,
                                       custom |-> customBranchName, err |-> e]
              same   == UNCHANGED <<mgr, git, registry>>
          IN  IF ~exists THEN ret("no checkpoint manager") /\ same
              ELSE IF ~revParseOk THEN ret("no current branch") /\ same
              ELSE IF customBranchName # <<>>
              THEN IF ~isValidGitBranchName(customBranchName)
                   THEN ret("invalid branch name") /\ same
                   ELSE IF finalBranch = <<>>
                   THEN ret("too many similar branches") /\ same
                   ELSE IF rn.err
                   THEN ret("failed to rename branch") /\ same
                   ELSE /\ git' = [git EXCEPT ![workDir] = rn.git]
                        /\ registry' = [registry EXCEPT ![workDir] = rn.registry]
                        /\ mgr' = mgr
                        /\ ret("nil")
              ELSE /\ mgr[m].lock = "free"
                   /\ IF mgr[m].currentTitle = <<>>
                      THEN ret("no title available") /\ same
                      ELSE /\ mgr[m].tw.pc = "none"
                           /\ mgr' = [mgr EXCEPT ![m].tw =
                                         [NoWorker EXCEPT !.pc = "start",
                                                          !.title = mgr[m].currentTitle]]
                           /\ UNCHANGED <<git, registry>>
                           /\ ret("nil")
    /\ lastGit' = NoResult
    /\ UNCHANGED <<ingestVars, checkpointManagers, processed, session, edits,
                   cleanVars, sup, worktrees, lockVars, cfgVars>>


----------------------------------------------------------------------------
(* The Registry lock and two operations of GitService that use it *)

Unlocked == [writer |-> "none", readers |-> {}]
IdleOp   == [pc |-> "idle", w |-> <<>>]
NoAccess == [by |-> "none", what |-> "none", write |-> FALSE, held |-> TRUE]

RLock(o)   == mu.writer = "none" /\ mu' = [mu EXCEPT !.readers = @ \cup {o}]
RUnlock(o) == mu' = [mu EXCEPT !.readers = @ \ {o}]
Lock(o)    == mu = Unlocked /\ mu' = [mu EXCEPT !.writer = o]
Unlock(o)  == mu' = [mu EXCEPT !.writer = "none"]

(* operation o reads or writes a part of the Registry *)
Touch(o, what, write) ==
    access' = [by |-> o, what |-> what, write |-> write,
               held |-> IF write THEN mu.writer = o
                        ELSE mu.writer = o \/ o \in mu.readers]

(* the steps of this part leave the monitor alone *)
RegistryOnly == UNCHANGED <<ingestVars, mgrVars, session, edits, cleanVars, sup,
                            worktrees, lastRename, cfgVars>>

(* MergeWorktreeToMain and SyncWorktree: s.mu.RLock() *)
LookupLock(o, w) ==
    /\ ops[o].pc = "idle"
    /\ RLock(o)
    /\ ops' = [ops EXCEPT ![o] = [pc |-> "lookup", w |-> w]]
    /\ lastGit' = NoResult
    /\ RegistryOnly /\ UNCHANGED <<git, registry, access>>

(* s.worktrees[worktreeID], s.mu.RUnlock(), return when it is not there *)
Lookup(o) ==
    /\ ops[o].pc = "lookup"
    /\ Touch(o, "worktrees", FALSE)
    /\ RUnlock(o)
    /\ ops' = [ops EXCEPT ![o] = IF ops[o].w \in worktrees
                                 THEN [@ EXCEPT !.pc = "found"]
                                 ELSE IdleOp]
    /\ lastGit' = NoResult
    /\ RegistryOnly /\ UNCHANGED <<git, registry>>

(* MergeWorktreeToMain, lines 1313-1321: worktree.RepoID and s.repositories *)
MergeFindRepo ==
    /\ ops["merge"].pc = "found"
    /\ Touch("merge", "repositories", FALSE)
    /\ \E local \in BOOLEAN :
          ops' = [ops EXCEPT !["merge"] = IF local THEN [@ EXCEPT !.pc = "git"]
                                          ELSE IdleOp]
    /\ lastGit' = NoResult
    /\ RegistryOnly /\ UNCHANGED <<git, registry, mu>>

(* lines 1326-1365: fetch, push, checkout, merge and commit in the main
   repository, with the branch names read from the worktree *)
MergeGit ==
    /\ ops["merge"].pc = "git"
    /\ Touch("merge", "worktree.Branch", FALSE)
    /\ \E ok \in BOOLEAN :
          ops' = [ops EXCEPT !["merge"] = IF ok THEN [@ EXCEPT !.pc = "hash"]
                                          ELSE IdleOp]
    /\ lastGit' = NoResult
    /\ RegistryOnly /\ UNCHANGED <<git, registry, mu>>

(* lines 1368-1372: GetCommitHash, then s.mu.Lock() *)
MergeLock ==
    /\ ops["merge"].pc = "hash"
    /\ \E ok \in BOOLEAN :
          IF ok
          THEN /\ Lock("merge")
               /\ ops' = [ops EXCEPT !["merge"].pc = "update"]
          ELSE /\ ops' = [ops EXCEPT !["merge"] = IdleOp]
               /\ mu' = mu
    /\ lastGit' = NoResult
    /\ RegistryOnly /\ UNCHANGED <<git, registry, access>>

(* lines 1373-1374: worktree.CommitHash = newCommitHash, s.mu.Unlock() *)
MergeUpdate ==
    /\ ops["merge"].pc = "update"
    /\ Touch("merge", "worktree.CommitHash", TRUE)
    /\ \E newCommitHash \in 1..2 :
          registry' = [registry EXCEPT ![ops["merge"].w].commitHash = newCommitHash]
    /\ Unlock("merge")
    /\ ops' = [ops EXCEPT !["merge"] = IdleOp]
    /\ lastGit' = NoResult
    /\ RegistryOnly /\ UNCHANGED git

(* syncWorktreeInternal, lines 1256-1264: fetchFullHistory reads
   s.repositories, applySyncStrategy merges or rebases *)
SyncApply ==
    /\ ops["sync"].pc = "found"
    /\ Touch("sync", "repositories", FALSE)
    /\ \E ok \in BOOLEAN :
          IF ok
          THEN /\ git' = [git EXCEPT ![ops["sync"].w].commits = Append(@, <<"sync">>)]
               /\ ops' = [ops EXCEPT !["sync"].pc = "status"]
          ELSE /\ git' = git
               /\ ops' = [ops EXCEPT !["sync"] = IdleOp]
    /\ lastGit' = NoResult
    /\ RegistryOnly /\ UNCHANGED <<registry, mu>>

(* line 1267: UpdateWorktreeStatus writes the status fields of the worktree *)
SyncUpdateStatus ==
    /\ ops["sync"].pc = "status"
    /\ Touch("sync", "worktree.CommitCount", TRUE)
    /\ registry' = [registry EXCEPT ![ops["sync"].w] =
                       RefreshWorktreeStatus(@, git[ops["sync"].w])]
    /\ ops' = [ops EXCEPT !["sync"] = IdleOp]
    /\ lastGit' = NoResult
    /\ RegistryOnly /\ UNCHANGED <<git, mu>>

----------------------------------------------------------------------------
(* Stopping *)

(* a variant that commits without looking at the current title *)
StopAlwaysCommits(mrec, g, s, r, outcome) ==
    LET c == commitPreviousWork(g, s, r, mrec.currentTitle, outcome)
    IN  [mgr |-> [stopTimer(mrec) EXCEPT !.stopped = TRUE],
         git |-> c.git, session |-> c.session, registry |-> c.registry,
         ret |-> c.ret]

(* WorktreeCheckpointManager.Stop, all of it under timerMutex *)
Stop(mrec, g, s, r, outcome) ==
    LET c == IF mrec.currentTitle # <<>>
             THEN commitPreviousWork(g, s, r, mrec.currentTitle, outcome)
             ELSE [git |-> g, session |-> s, registry |-> r, ret |-> NoResult]
    IN  [mgr |-> [stopTimer(mrec) EXCEPT !.stopped = TRUE],
         git |-> c.git, session |-> c.session, registry |-> c.registry,
         ret |-> c.ret]

(* ClaudeMonitorService.Stop up to managersMutex.Lock: stopCh and both
   watchers are closed *)
StopBegin ==
    /\ sup = "running"
    /\ sup' = "stopping"
    /\ lastGit' = NoResult
    /\ UNCHANGED <<ingestVars, mgrVars, repoVars, cleanVars, worktrees, lastRename,
                   lockVars, cfgVars>>

(* one turn of the loop over checkpointManagers: manager.Stop(), delete *)
StopManager(w) ==
    /\ sup = "stopping"
    /\ w \in DOMAIN checkpointManagers
    /\ mgr[checkpointManagers[w]].lock = "free"
    /\ \E outcome \in CommitOutcomes(git[w]) :
          LET m == checkpointManagers[w]
              c == Stop(mgr[m], git[w], session[w], registry[w], outcome)
          IN  /\ mgr' = [mgr EXCEPT ![m] = c.mgr]
              /\ git' = [git EXCEPT ![w] = c.git]
              /\ session' = [session EXCEPT ![w] = c.session]
              /\ registry' = [registry EXCEPT ![w] = c.registry]
              /\ lastGit' = c.ret
    /\ checkpointManagers' =
          [k \in DOMAIN checkpointManagers \ {w} |-> checkpointManagers[k]]
    /\ UNCHANGED <<ingestVars, processed, edits, cleanVars, supVars>>

(* the loop is over: managersMutex is released and Stop returns *)
StopEnd ==
    /\ sup = "stopping"
    /\ DOMAIN checkpointManagers = {}
    /\ sup' = "stopped"
    /\ lastGit' = NoResult
    /\ UNCHANGED <<ingestVars, mgrVars, repoVars, cleanVars, worktrees, lastRename,
                   lockVars, cfgVars>>

(* the map s.worktrees as saveState hands it to json.MarshalIndent *)
Snapshot(wts, reg) == [w \in wts |-> reg[w]]

(* GitService.DeleteWorktree for the worktree at path w, all of it under
   s.mu.Lock: the directory is removed by the worktree manager, with whatever
   was not committed, and the worktree leaves the map; nothing happens when
   the removal fails *)
DeleteWorktree(w) ==
    /\ mu = Unlocked
    /\ w \in worktrees
    /\ \E ok \in BOOLEAN :
          IF ok
          THEN /\ worktrees' = worktrees \ {w}
               /\ git' = [git EXCEPT ![w].staged = FALSE, ![w].dirty = FALSE]
               /\ saved' = Snapshot(worktrees \ {w}, registry)
          ELSE UNCHANGED <<worktrees, git, saved>>
    /\ lastGit' = NoResult
    /\ UNCHANGED <<ingestVars, mgrVars, session, registry, edits, cleanVars, sup,
                   lastRename, lockVars, workspaceDirEnv, titlesLog>>

(* GitService.ListWorktrees, all of it under s.mu.Lock: the status of every
   worktree is brought up to date, and the state is saved when a commit
   count, a branch or a commit hash came out different *)
ListWorktrees ==
    /\ mu = Unlocked
    /\ LET updated == [w \in DOMAIN registry |->
                          IF w \in worktrees
                          THEN RefreshWorktreeStatus(registry[w], git[w])
                          ELSE registry[w]]
           hasUpdates == \E w \in worktrees :
                            \/ updated[w].commitCount # registry[w].commitCount
                            \/ updated[w].branch # registry[w].branch
                            \/ updated[w].commitHash # registry[w].commitHash
       IN  /\ registry' = updated
           /\ saved' = IF hasUpdates THEN Snapshot(worktrees, updated) ELSE saved
    /\ lastGit' = NoResult
    /\ UNCHANGED <<ingestVars, mgrVars, git, session, edits, cleanVars, sup, worktrees,
                   lastRename, lockVars, workspaceDirEnv, titlesLog>>

----------------------------------------------------------------------------
(* Persistence of the Registry: state.json.                                *)
(*   A Go string may hold bytes that are not UTF-8; json.Marshal writes    *)
(*   U+FFFD for each of them.  A document is what is written, member by    *)
(*   member: the keys of a map in sorted order, each with its value.       *)

BadByte     == "x"    \* stands for a byte that is not valid UTF-8 (0xFF)
Replacement == "r"    \* stands for U+FFFD

(* the IDs of the check, in the byte order json.Marshal sorts keys by *)
StateIDs == << <<"a">>, <<Replacement>>, <<BadByte>> >>

Range(f) == {f[i] : i \in DOMAIN f}

(* models.Repository and models.Worktree, with the fields the check varies *)
Repositories == [Path : Range(StateIDs)]
WorktreeRecords == [RepoID : {<<"a">>}, Branch : Range(StateIDs), IsDirty : BOOLEAN]

MapsInto(V) ==
    UNION {[D -> V] : D \in {E \in SUBSET Range(StateIDs) : Cardinality(E) <= MaxEntries}}

RegistryStates == [repositories : MapsInto(Repositories), worktrees : MapsInto(WorktreeRecords)]

(* a string as encoding/json writes it *)
marshalString(str) ==
    [i \in 1..Len(str) |-> IF str[i] = BadByte THEN Replacement ELSE str[i]]

marshalRepository(r) == [Path |-> marshalString(r.Path)]

marshalWorktree(w) ==
    [RepoID |-> marshalString(w.RepoID), Branch |-> marshalString(w.Branch),
     IsDirty |-> w.IsDirty]

(* a map as encoding/json writes it, its values being written already: a
   member for each key, in key order *)
marshalMap(mp) ==
    LET keys == SelectSeq(StateIDs, LAMBDA k : k \in DOMAIN mp)
    IN  [i \in 1..Len(keys) |->
            [key |-> marshalString(keys[i]), value |-> mp[keys[i]]]]

(* an object as encoding/json reads it into a map: the last member of a key
   wins *)
unmarshalMap(members) ==
    LET keys == {members[i].key : i \in 1..Len(members)}
        last(k) == CHOOSE i \in 1..Len(members) :
                      /\ members[i].key = k
                      /\ \A j \in 1..Len(members) : members[j].key = k => j <= i
    IN  [k \in keys |-> members[last(k)].value]

(* GitService.saveState: the document written *)
saveState(st) ==
    [repositories |-> marshalMap([k \in DOMAIN st.repositories |->
                                     marshalRepository(st.repositories[k])]),
     worktrees    |-> marshalMap([k \in DOMAIN st.worktrees |->
                                     marshalWorktree(st.worktrees[k])])]

(* a variant that reads the repositories only *)
loadStateRepositoriesOnly(st, doc) ==
    [repositories |-> unmarshalMap(doc.repositories), worktrees |-> st.worktrees]

(* GitService.loadState: the maps after reading a document in the current
   format *)
loadState(st, doc) ==
    [repositories |-> unmarshalMap(doc.repositories),
     worktrees    |-> unmarshalMap(doc.worktrees)]

----------------------------------------------------------------------------
(* Session transcript directories.  A path is a sequence of characters; "a"
   stands for a letter. *)

PathChars == {"/", "-", "a"}

RECURSIVE PathsUpTo(_)
PathsUpTo(n) ==
    IF n = 0 THEN {<<>>}
    ELSE LET shorter == PathsUpTo(n - 1)
         IN  shorter \cup {Append(s, c) : s \in {x \in shorter : Len(x) = n - 1},
                                          c \in PathChars}

(* the absolute paths in clean form: a leading "/", no empty component and no
   "/" at the end *)
AbsolutePaths ==
    {p \in PathsUpTo(MaxPathLen) :
        /\ Len(p) >= 2 /\ p[1] = "/" /\ p[Len(p)] # "/"
        /\ \A i \in 1..(Len(p) - 1) : ~(p[i] = "/" /\ p[i + 1] = "/")}

(* strings.ReplaceAll for a one-character old *)
ReplaceAll(s, old, new) == [i \in 1..Len(s) |-> IF s[i] = old THEN new ELSE s[i]]

(* the name the agent gives the transcript directory of a worktree *)
encodeWorktreePath(worktreePath) == ReplaceAll(worktreePath, "/", "-")

(* getWorktreePathFromSessionFile, from the base name of the file's
   directory on *)
getWorktreePathFromSessionFile(projectDirName) ==
    IF HasPrefix(projectDirName, <<"-">>)
    THEN ReplaceAll(Tail(projectDirName), "-", "/")
    ELSE <<>>

----------------------------------------------------------------------------
(* Specifications *)

EmptyMap == [k \in {} |-> 0]

InitRepo ==
    [commits |-> <<>>, staged |-> FALSE, dirty |-> FALSE, head |-> ScratchBranch,
     detached |-> FALSE, branches |-> {ScratchBranch, LoginBranch}]

InitState(rec) ==
    /\ now = 0
    /\ recentTitles = EmptyMap
    /\ hist = <<>>
    /\ record = rec
    /\ nEvents = 0
    /\ th = [t \in Threads |-> IdleThread]
    /\ checkpointManagers = EmptyMap
    /\ mgr = <<>>
    /\ processed = [w \in Worktrees |-> 0]
    /\ git = [w \in Worktrees |-> InitRepo]
    /\ session = [w \in Worktrees |-> <<>>]
    /\ registry = [w \in Worktrees |->
                      [branch |-> ScratchBranch, commitCount |-> 0, dirty |-> FALSE,
                       commitHash |-> 0]]
    /\ edits = 0
    /\ lastGit = NoResult
    /\ sup = "running"
    /\ worktrees = Worktrees
    /\ lastRename = NoRename
    /\ mu = Unlocked
    /\ ops = [o \in {"merge", "sync", "cleanup"} |-> IdleOp]
    /\ access = NoAccess
    /\ saved = Snapshot(worktrees, registry)

(* CATNIP_WORKSPACE_DIR is not set and nothing is in the log *)
InitWith(rec) == InitState(rec) /\ workspaceDirEnv = <<>> /\ titlesLog = NoLog

Init == InitWith(FALSE) /\ ctIn = <<>> /\ ctOut = <<>>

InitDedup == InitWith(TRUE) /\ ctIn = <<>> /\ ctOut = <<>>

Ingest ==
    \/ \E cwd \in Cwds, raw \in RawTitles : ReadTitlesLogLine(cwd, raw)
    \/ \E cwd \in Cwds, raw \in RawTitles : NotifyTitleChange(cwd, raw)
    \/ \E t \in Threads : GetOrCreateManager(t)
    \/ \E t \in Threads : HandleTitleChange(t)

Timers ==
    \/ \E m \in 1..MaxMgrs : TimerFire(m)
    \/ \E m \in 1..MaxMgrs : TimerCallback(m)
    \/ \E m \in 1..MaxMgrs : TimerCheckpoint(m)

(* the workers HandleTitleChange starts *)
Graduation ==
    \/ \E m \in 1..MaxMgrs : WorkerStart(m, "gw")
    \/ \E m \in 1..MaxMgrs : WorkerSuggest(m, "gw")
    \/ \E m \in 1..MaxMgrs : WorkerCheckout(m, "gw")
    \/ \E m \in 1..MaxMgrs : WorkerDelete(m, "gw")
    \/ \E m \in 1..MaxMgrs : WorkerRegistry(m, "gw")
    \/ \E m \in 1..MaxMgrs : WorkerExit(m, "gw")

(* the workers TriggerBranchRename starts *)
ManualGraduation ==
    \/ \E m \in 1..MaxMgrs : WorkerStart(m, "tw")
    \/ \E m \in 1..MaxMgrs : WorkerSuggest(m, "tw")
    \/ \E m \in 1..MaxMgrs : WorkerCheckout(m, "tw")
    \/ \E m \in 1..MaxMgrs : WorkerDelete(m, "tw")
    \/ \E m \in 1..MaxMgrs : WorkerRegistry(m, "tw")
    \/ \E m \in 1..MaxMgrs : WorkerExit(m, "tw")

Next ==
    \/ Ingest
    \/ Timers
    \/ Graduation
    \/ \E w \in Worktrees : AgentEdit(w)

Spec == Init /\ [][Next]_vars

(* handleTitleChange for an event that its key's entry in recentTitles does
   not hold back: the first of its key, or a pty event two seconds or more
   after the last one (line 254), or any event once the entry is evicted
   (lines 238-243).  The clock, recentTitles and the count of events are left
   aside; a title the Session Store does not end with is taken only while the
   store and the callers under way hold fewer than MaxEvents titles, and no event while MaxTimers
   timers of a manager are left over or have their callbacks under way. *)
handleTitleChangeLater(t, workDir, newTitle) ==
    /\ th[t].pc = "idle"
    /\ \A m \in DOMAIN mgr :
          mgr[m].orphans + mgr[m].waiting + (IF mgr[m].cb = "none" THEN 0 ELSE 1)
              < MaxTimers
    /\ LET calling == {u \in Threads : th[u].pc # "idle"}
       IN  \/ /\ newTitle = GetPreviousTitle(session[workDir])
              /\ \A u \in calling : th[u].title = newTitle
           \/ Len(session[workDir]) + Cardinality(calling) < MaxEvents
    /\ th' = [th EXCEPT ![t] = [pc |-> "lookup", workDir |-> workDir,
                                title |-> newTitle, ev |-> nEvents, m |-> 0]]
    /\ lastGit' = NoResult
    /\ UNCHANGED <<now, recentTitles, hist, record, nEvents, mgrVars, repoVars,
                   cleanVars, supVars>>

(* the titles that reach handleTitleChange *)
CleanTitles == {cleanTitle(raw) : raw \in RawTitles} \ {<<>>}

(* The monitor with title events that never cease to arrive; graduation
   workers are left out, they touch neither the timer nor the commits. *)
NextLive ==
    \/ \E t \in Threads, w \in Worktrees, title \in CleanTitles :
          handleTitleChangeLater(t, w, title)
    \/ \E t \in Threads : GetOrCreateManager(t)
    \/ \E t \in Threads : HandleTitleChange(t)
    \/ Timers
    \/ \E w \in Worktrees : AgentEdit(w)

(* HandleTitleChange on manager m: it stops the timer of m and starts another *)
TimerReset(m) == \E t \in Threads : th[t].m = m /\ HandleTitleChange(t)

(* the timer in m.checkpointTimer fires; a timer that was replaced without
   being stopped fires *)
CurrentTimerFires(m) == TimerFire(m) /\ mgr[m].checkpointTimer = "armed"
                                    /\ mgr'[m].checkpointTimer = "fired"
LeftOverTimerFires(m) == TimerFire(m) /\ mgr'[m].orphans < mgr[m].orphans

(* Scheduling: a caller that can go on does; a callback that can take
   timerMutex does, and it returns; a timer that nothing stops fires
   (time.AfterFunc), which a timer stopped and replaced by HandleTitleChange
   need not. *)
FairLive ==
    /\ \A t \in Threads : WF_vars(GetOrCreateManager(t)) /\ WF_vars(HandleTitleChange(t))
    /\ \A m \in 1..MaxMgrs : /\ WF_vars(CurrentTimerFires(m) \/ TimerReset(m))
                             /\ WF_vars(LeftOverTimerFires(m))
                             /\ WF_vars(TimerCallback(m))
                             /\ WF_vars(TimerCheckpoint(m))

SpecLive == Init /\ [][NextLive]_vars /\ FairLive

(* ClaudeMonitorService.Stop has not returned *)
Alive == sup # "stopped"

(* The monitor with its shutdown; graduation workers are left out, they
   touch neither the timer nor the commits.  No title event arrives after
   Stop has returned; the callers, timers and callbacks that were under way
   go on. *)
NextStop ==
    \/ Alive /\ \E cwd \in Cwds, raw \in RawTitles : ReadTitlesLogLine(cwd, raw)
    \/ Alive /\ \E cwd \in Cwds, raw \in RawTitles : NotifyTitleChange(cwd, raw)
    \/ \E t \in Threads : GetOrCreateManager(t)
    \/ \E t \in Threads : HandleTitleChange(t)
    \/ Timers
    \/ \E w \in Worktrees : AgentEdit(w)
    \/ StopBegin
    \/ \E w \in Worktrees : StopManager(w)
    \/ StopEnd

SpecStop == Init /\ [][NextStop]_vars

(* The same up to the return of Stop, after which the process exits *)
NextShutdown ==
    \/ Alive /\ \E cwd \in Cwds, raw \in RawTitles : ReadTitlesLogLine(cwd, raw)
    \/ Alive /\ \E cwd \in Cwds, raw \in RawTitles : NotifyTitleChange(cwd, raw)
    \/ Alive /\ \E t \in Threads : GetOrCreateManager(t)
    \/ Alive /\ \E t \in Threads : HandleTitleChange(t)
    \/ Alive /\ \E m \in 1..MaxMgrs : TimerFire(m)
    \/ Alive /\ \E m \in 1..MaxMgrs : TimerCallback(m)
    \/ Alive /\ \E m \in 1..MaxMgrs : TimerCheckpoint(m)
    \/ Alive /\ \E w \in Worktrees : AgentEdit(w)
    \/ StopBegin
    \/ \E w \in Worktrees : StopManager(w)
    \/ StopEnd

SpecShutdown == Init /\ [][NextShutdown]_vars

(* The monitor with the deletion of worktrees.  A deleted directory no longer
   passes isWorktreeDirectory. *)
Present(cwd) == cwd \notin Worktrees \ worktrees

NextDelete ==
    \/ \E cwd \in Cwds, raw \in RawTitles : Present(cwd) /\ ReadTitlesLogLine(cwd, raw)
    \/ \E cwd \in Cwds, raw \in RawTitles : Present(cwd) /\ NotifyTitleChange(cwd, raw)
    \/ \E t \in Threads : GetOrCreateManager(t)
    \/ \E t \in Threads : HandleTitleChange(t)
    \/ Timers
    \/ \E w \in Worktrees : AgentEdit(w)
    \/ \E w \in Worktrees : DeleteWorktree(w)

SpecDelete == Init /\ [][NextDelete]_vars

(* Renaming: the title events, the automatic graduation and the manual entry
   point, without the timer.  HandleTitleChange starts its worker only when
   the one it started before has returned. *)
NextRename ==
    \/ \E cwd \in Cwds, raw \in RawTitles : ReadTitlesLogLine(cwd, raw)
    \/ \E cwd \in Cwds, raw \in RawTitles : NotifyTitleChange(cwd, raw)
    \/ \E t \in Threads : GetOrCreateManager(t)
    \/ \E t \in Threads :
          /\ th[t].pc = "handle"
          /\ mgr[th[t].m].renamingInProgress \/ mgr[th[t].m].gw.pc = "none"
          /\ HandleTitleChange(t)
    \/ Graduation
    \/ \E w \in Worktrees, custom \in CustomNames : TriggerBranchRename(w, custom)
    \/ ManualGraduation

SpecRename == Init /\ [][NextRename]_vars

(* The manual entry point alone: the title events, TriggerBranchRename and the
   workers it starts; the workers HandleTitleChange starts are left out *)
NextManual ==
    \/ \E cwd \in Cwds, raw \in RawTitles : ReadTitlesLogLine(cwd, raw)
    \/ \E cwd \in Cwds, raw \in RawTitles : NotifyTitleChange(cwd, raw)
    \/ \E t \in Threads : GetOrCreateManager(t)
    \/ \E t \in Threads : HandleTitleChange(t)
    \/ \E w \in Worktrees, custom \in CustomNames : TriggerBranchRename(w, custom)
    \/ ManualGraduation

SpecManual == Init /\ [][NextManual]_vars

(* Validation alone: a name of at most MaxNameLen elements is validated, taken
   as the answer of CreateCompletion and taken as the custom name of
   TriggerBranchRename, in the repository as it is at the start *)
InitValidate == InitWith(FALSE) /\ ctIn \in NamesUpTo(MaxNameLen) /\ ctOut = <<>>

ValidateName ==
    /\ ctOut = <<>>
    /\ ctOut' = <<isValidGitBranchName(ctIn),
                  suggestBranch([err |-> FALSE, response |-> ctIn], InitRepo.branches),
                  customBranch(ctIn, InitRepo.branches)>>
    /\ UNCHANGED <<ingestVars, mgrVars, repoVars, lastGit, ctIn, supVars>>

SpecValidate == InitValidate /\ [][ValidateName]_vars

(* Collision resolution alone: a valid name is resolved against a repository
   in which the name and its first k numbered variants are taken, all of them
   or all but one *)
Taken(name, k) ==
    {name : i \in {0} \cap (0..k)} \cup {Numbered(name, i) : i \in 1..k}

TakenSets(name) ==
    {Taken(name, k) : k \in (-1)..(CollisionLimit + 1)}
    \cup {Taken(name, k) \ {Numbered(name, j)} :
             k \in (-1)..(CollisionLimit + 1), j \in {1, CollisionLimit}}

InitCollide ==
    /\ InitWith(FALSE)
    /\ ctIn \in {[newBranch |-> name, branches |-> bs] :
                    name \in {FixBranch, LoginBranch}, bs \in TakenSets(FixBranch)}
    /\ ctOut = <<>>

ResolveName ==
    /\ ctOut = <<>>
    /\ ctOut' = <<suggestBranch([err |-> FALSE, response |-> ctIn.newBranch],
                                ctIn.branches),
                  customBranch(ctIn.newBranch, ctIn.branches)>>
    /\ UNCHANGED <<ingestVars, mgrVars, repoVars, lastGit, ctIn, supVars>>

SpecCollide == InitCollide /\ [][ResolveName]_vars

(* Persistence alone: a Registry state is saved, loaded by a new process and
   saved again *)
InitPersist == InitWith(FALSE) /\ ctIn \in RegistryStates /\ ctOut = <<>>

SaveLoadSave ==
    /\ ctOut = <<>>
    /\ LET first  == saveState(ctIn)
           loaded == loadState([repositories |-> EmptyMap, worktrees |-> EmptyMap], first)
       IN  ctOut' = <<first, loaded, saveState(loaded)>>
    /\ UNCHANGED <<ingestVars, mgrVars, repoVars, lastGit, ctIn, supVars>>

SpecPersist == InitPersist /\ [][SaveLoadSave]_vars

(* The Registry and its lock: one merge and one sync at a time, beside the
   deletion of worktrees.  A sync adds at most MaxSyncs commits. *)
NextLock ==
    \/ \E o \in {"merge", "sync"}, w \in Worktrees : LookupLock(o, w)
    \/ \E o \in {"merge", "sync"} : Lookup(o)
    \/ MergeFindRepo
    \/ MergeGit
    \/ MergeLock
    \/ MergeUpdate
    \/ SyncApply /\ Len(git[ops["sync"].w].commits) < MaxSyncs
    \/ SyncUpdateStatus
    \/ \E w \in Worktrees : DeleteWorktree(w)
    \/ ListWorktrees

SpecLock == Init /\ [][NextLock]_vars

(* The ingestion under each setting of CATNIP_WORKSPACE_DIR *)
InitWorkspace ==
    /\ InitState(FALSE)
    /\ workspaceDirEnv \in WorkspaceDirEnvs
    /\ titlesLog = NoLog
    /\ ctIn = <<>> /\ ctOut = <<>>

SpecWorkspace == InitWorkspace /\ [][Ingest]_vars

(* The log tailer alone: a log of at most MaxLines lines is there when the
   service starts; readTitlesLog is called for it, and again for each further
   event of the watcher *)
InitLog ==
    /\ InitState(TRUE)
    /\ workspaceDirEnv = <<>>
    /\ titlesLog \in {[NoLog EXCEPT !.file = f] : f \in LogFiles(MaxLines)}
    /\ ctIn = <<>> /\ ctOut = <<>>

NextLog ==
    \/ ReadTitlesLogOpen
    \/ ReadTitlesLogScan
    \/ \E t \in Threads : GetOrCreateManager(t)
    \/ \E t \in Threads : HandleTitleChange(t)

SpecLog == InitLog /\ [][NextLog]_vars

(* Transcript directories alone: the path of a worktree is encoded as the
   agent encodes it and the name is decoded *)
InitDecode == InitWith(FALSE) /\ ctIn \in AbsolutePaths /\ ctOut = <<>>

DecodeName ==
    /\ ctOut = <<>>
    /\ ctOut' = <<encodeWorktreePath(ctIn),
                  getWorktreePathFromSessionFile(encodeWorktreePath(ctIn))>>
    /\ UNCHANGED <<ingestVars, mgrVars, repoVars, lastGit, ctIn, supVars>>

SpecDecode == InitDecode /\ [][DecodeName]_vars

(* The callers run one at a time.  The dedup stage is serialized by
   recentTitlesMutex and nothing after it reads or writes recentTitles or the
   clock, so the dedup decisions of every concurrent run are those of a run
   of this specification. *)
Quiet == \A t \in Threads : th[t].pc = "idle"

NextDedup ==
    \/ Quiet /\ Tick
    \/ Quiet /\ \E cwd \in Cwds, raw \in RawTitles : ReadTitlesLogLine(cwd, raw)
    \/ Quiet /\ \E cwd \in Cwds, raw \in RawTitles : NotifyTitleChange(cwd, raw)
    \/ \E t \in Threads : GetOrCreateManager(t)
    \/ \E t \in Threads : HandleTitleChange(t)

SpecDedup == InitDedup /\ [][NextDedup]_vars

(* Normalization alone: a raw title of at most MaxLen characters is cleaned
   as the callers clean it, and the result is cleaned again as
   checkAndRenameBranch does *)
InitClean == InitWith(FALSE) /\ ctIn \in SeqsUpTo(MaxLen) /\ ctOut = <<>>

CleanTwice ==
    /\ ctOut = <<>>
    /\ ctOut' = <<cleanTitle(ctIn), cleanTitle(cleanTitle(ctIn))>>
    /\ UNCHANGED <<ingestVars, mgrVars, repoVars, lastGit, ctIn, supVars>>

SpecClean == InitClean /\ [][CleanTwice]_vars

----------------------------------------------------------------------------
(* Properties *)

ManagersOf(workDir) == {m \in DOMAIN mgr : mgr[m].workDir = workDir}

(* C1: a worktree path never has more than one checkpoint manager, and every
   caller about to run HandleTitleChange holds the manager the map names for
   its path *)
AtMostOneManager ==
    /\ \A w \in Worktrees : Cardinality(ManagersOf(w)) <= 1
    /\ \A t \in Threads :
          th[t].pc = "handle" =>
              /\ th[t].workDir \in DOMAIN checkpointManagers
              /\ checkpointManagers[th[t].workDir] = th[t].m

(* two callers inside handleTitleChange for the same path at once, before any
   event of the path was processed, and one manager *)
TwoCallersOneManager ==
    /\ th["log"].pc = "handle" /\ th["pty"].pc = "handle"
    /\ th["log"].workDir = th["pty"].workDir
    /\ processed[th["log"].workDir] = 0
    /\ th["log"].m = th["pty"].m
    /\ Len(mgr) = 1

SameKey(i, j) ==
    hist[i].workDir = hist[j].workDir /\ hist[i].title = hist[j].title

(* events i < j are the only ones of their path and title from EvictAfter
   seconds before i up to j *)
Alone(i, j) ==
    \A k \in 1..j :
        (k # i /\ k # j /\ SameKey(k, i)) => hist[k].time < hist[i].time - EvictAfter

Pairs == {p \in (1..Len(hist)) \X (1..Len(hist)) : p[1] < p[2] /\ SameKey(p[1], p[2])}

(* C2 as claimed: of any two log events with the same path and title exactly
   one is forwarded *)
LogPairForwardedOnce ==
    \A p \in Pairs :
        (hist[p[1]].source = "log" /\ hist[p[2]].source = "log")
            => (hist[p[1]].fwd # hist[p[2]].fwd)

(* C2 amended: of two log events with the same path and title that arrive at
   most EvictAfter seconds apart, with no other event of that path and title
   around them, the first is forwarded and the second is dropped *)
LogPairWithinEviction ==
    \A p \in Pairs :
        (/\ hist[p[1]].source = "log" /\ hist[p[2]].source = "log"
         /\ hist[p[2]].time - hist[p[1]].time <= EvictAfter
         /\ Alone(p[1], p[2]))
            => (hist[p[1]].fwd /\ ~hist[p[2]].fwd)

(* a log line replayed exactly EvictAfter seconds after it was forwarded is
   dropped *)
LogReplayDropped ==
    /\ Len(hist) = 2
    /\ SameKey(1, 2)
    /\ hist[1].source = "log" /\ hist[2].source = "log"
    /\ hist[2].time - hist[1].time = EvictAfter
    /\ hist[1].fwd /\ ~hist[2].fwd

(* C3: a log event and a pty event with the same path and title less than
   PtyWindow seconds apart, in either order: exactly one is forwarded *)
CrossSourcePairForwardedOnce ==
    \A p \in Pairs :
        (/\ hist[p[1]].source # hist[p[2]].source
         /\ hist[p[2]].time - hist[p[1]].time < PtyWindow
         /\ Alone(p[1], p[2]))
            => (hist[p[1]].fwd # hist[p[2]].fwd)

(* C4: a log event and a pty event with the same path and title more than
   PtyWindow seconds apart, in either order: both are forwarded *)
CrossSourcePairBothForwarded ==
    \A p \in Pairs :
        (/\ hist[p[1]].source # hist[p[2]].source
         /\ hist[p[2]].time - hist[p[1]].time > PtyWindow
         /\ Alone(p[1], p[2]))
            => (hist[p[1]].fwd /\ hist[p[2]].fwd)

(* a pty event PtyWindow + 1 seconds after the forwarded log event of the
   same title is forwarded too *)
LogThenLatePtyForwarded ==
    /\ Len(hist) = 2
    /\ SameKey(1, 2)
    /\ hist[1].source = "log" /\ hist[2].source = "pty"
    /\ hist[2].time - hist[1].time = PtyWindow + 1
    /\ hist[1].fwd /\ hist[2].fwd

(* C5: cleaning a cleaned title changes nothing *)
CleanTitleIdempotent == ctOut # <<>> => ctOut[2] = ctOut[1]

(* C6: the title changes of a worktree reach HandleTitleChange in the order
   in which they passed the dedup stage: no caller still on its way to
   HandleTitleChange holds an event that passed before one already handled *)
HandledInDedupOrder ==
    \A t \in Threads :
        th[t].pc \in {"lookup", "handle"} => th[t].ev > processed[th[t].workDir]

(* C7: while the timer callback is inside CreateCheckpoint, the graduation
   worker is not between the git steps of renameBranch *)
CheckpointExcludesRename ==
    \A m \in DOMAIN mgr :
        ~(mgr[m].cb = "checkpoint" /\ mgr[m].gw.pc \in {"delete", "registry"})

(* C8: whenever a graduation worker exits, renamingInProgress is false *)
LatchClearedOnExit ==
    [][\A m \in DOMAIN mgr :
          (mgr[m].gw.pc # "none" /\ mgr'[m].gw.pc = "none")
              => ~mgr'[m].renamingInProgress]_vars

(* C9: a timer checkpoint with a non-empty title and a dirty tree either adds
   exactly one commit whose message is the title and leaves the tree clean, or
   reports an error and leaves the repository as it was *)
CheckpointAllOrNothing ==
    [][\A m \in DOMAIN mgr :
          (mgr[m].cb = "checkpoint" /\ mgr'[m].cb = "none") =>
              LET w == mgr[m].workDir
              IN  \/ /\ git'[w].commits = Append(git[w].commits, mgr[m].currentTitle)
                     /\ ~HasUncommittedChanges(git'[w])
                  \/ /\ lastGit'.err
                     /\ git'[w] = git[w]]_vars

(* a caller takes the HandleTitleChange step of a manager whose current title
   is set and differs from the new one, on a tree with uncommitted changes *)
TitleChangesOnDirtyTree(t) ==
    /\ th[t].pc = "handle" /\ th'[t].pc = "idle"
    /\ mgr[th[t].m].currentTitle # <<>>
    /\ mgr[th[t].m].currentTitle # th[t].title
    /\ HasUncommittedChanges(git[th[t].workDir])

(* the new title is current, its session entry is the latest and carries no
   hash, and the handle names a fresh armed timer *)
NewTitleInstalled(t) ==
    LET m == th[t].m
        w == th[t].workDir
    IN  /\ mgr'[m].currentTitle = th[t].title
        /\ Len(session'[w]) = Len(session[w]) + 1
        /\ session'[w][Len(session'[w])] = [title |-> th[t].title, hash |-> 0]
        /\ mgr'[m].checkpointTimer = "armed"

(* a commit with the old title as message is added, and its hash is recorded
   on the old title's session entry *)
OldTitleCommitted(t) ==
    LET m == th[t].m
        w == th[t].workDir
        n == Len(session[w])
    IN  /\ git'[w].commits = Append(git[w].commits, mgr[m].currentTitle)
        /\ session[w][n].title = mgr[m].currentTitle
        /\ session'[w][n] = [title |-> mgr[m].currentTitle,
                             hash |-> Len(git'[w].commits)]
        /\ \A i \in 1..(n - 1) : session'[w][i] = session[w][i]

(* C10 as claimed: a title change on a dirty tree commits the old title's
   work, records the hash on the old title's entry, makes the new title
   current and restarts the timer *)
TitleChangeCommitsOldWork ==
    [][\A t \in Threads :
          TitleChangesOnDirtyTree(t)
              => (OldTitleCommitted(t) /\ NewTitleInstalled(t))]_vars

(* C10 amended: the new title is made current and the timer restarted in
   every case; when git add, commit and rev-parse succeed the old title's work
   is committed and the hash recorded on the old title's entry; otherwise no
   entry of the session gains a hash and at most the commit is added *)
TitleChangeCommitsOldWorkWhenGitSucceeds ==
    [][\A t \in Threads :
          TitleChangesOnDirtyTree(t) =>
              LET m == th[t].m
                  w == th[t].workDir
              IN  /\ NewTitleInstalled(t)
                  /\ lastGit'.hash # 0 => OldTitleCommitted(t)
                  /\ lastGit'.hash = 0 =>
                        /\ \A i \in 1..Len(session[w]) :
                              session'[w][i] = session[w][i]
                        /\ git'[w].commits \in
                              {git[w].commits,
                               Append(git[w].commits, mgr[m].currentTitle)}]_vars

(* the state after such a title change with git succeeding: the one commit
   carries the first title, the first entry its hash, the second title is
   current and the timer armed *)
OldWorkCommittedAtTitleChange ==
    \E m \in DOMAIN mgr :
        LET w == mgr[m].workDir
        IN  /\ Len(session[w]) = 2
            /\ git[w].commits = <<session[w][1].title>>
            /\ session[w][1].hash = 1
            /\ session[w][2] = [title |-> mgr[m].currentTitle, hash |-> 0]
            /\ lastGit = [err |-> FALSE, hash |-> 1]
            /\ mgr[m].checkpointTimer = "armed"
            /\ processed[w] = 2

(* the step in which Stop of manager m returns *)
StopReturns(m) == ~mgr[m].stopped /\ mgr'[m].stopped

(* C11 as claimed: Stop makes exactly one commit, with the current title as
   message, when a title is current and the tree is dirty, and no commit
   otherwise *)
StopCommitsPendingWork ==
    [][\A m \in DOMAIN mgr :
          StopReturns(m) =>
              LET g == git[mgr[m].workDir]
              IN  git'[mgr[m].workDir].commits =
                     IF mgr[m].currentTitle # <<>> /\ HasUncommittedChanges(g)
                     THEN Append(g.commits, mgr[m].currentTitle)
                     ELSE g.commits]_vars

(* C11 amended: Stop never makes more than one commit, and that one with the
   current title as message; it makes none when no title is current or the
   tree is clean; it makes the commit and records its hash when a title is
   current, the tree is dirty and git add, commit and rev-parse succeed *)
StopCommitsPendingWorkWhenGitSucceeds ==
    [][\A m \in DOMAIN mgr :
          StopReturns(m) =>
              LET w == mgr[m].workDir
                  g == git[w]
                  title == mgr[m].currentTitle
              IN  /\ git'[w].commits \in {g.commits, Append(g.commits, title)}
                  /\ (title = <<>> \/ ~HasUncommittedChanges(g))
                        => git'[w].commits = g.commits
                  /\ (title # <<>> /\ HasUncommittedChanges(g) /\ lastGit'.hash # 0)
                        => /\ git'[w].commits = Append(g.commits, title)
                           /\ ~HasUncommittedChanges(git'[w])
                  /\ lastGit'.hash # 0
                        => title # <<>> /\ HasUncommittedChanges(g)]_vars

(* a manager stopped with its one title's work committed by Stop: no timer
   checkpoint has recorded a hash before, Stop's commit did *)
StoppedWithFinalCommit ==
    \E m \in DOMAIN mgr :
        LET w == mgr[m].workDir
        IN  /\ mgr[m].stopped
            /\ lastGit = [err |-> FALSE, hash |-> 1]
            /\ git[w].commits = <<mgr[m].currentTitle>>
            /\ ~HasUncommittedChanges(git[w])
            /\ sup = "stopping"

(* C12: once Stop of a manager has returned, its timer handle is not armed
   and no timer callback of it is inside CreateCheckpoint *)
StoppedManagerStaysQuiet ==
    \A m \in DOMAIN mgr :
        mgr[m].stopped =>
            (mgr[m].checkpointTimer # "armed" /\ mgr[m].cb # "checkpoint")

(* C13: once the supervisor's Stop has returned, the map is empty and no
   caller is inside handleTitleChange or on its way to a manager *)
StopLeavesNothingRunning ==
    sup = "stopped" =>
        /\ checkpointManagers = EmptyMap
        /\ \A t \in Threads : th[t].pc = "idle"

(* C19: a worktree that was deleted has no checkpoint manager in the map and
   no manager of its path has an armed timer *)
DeletedWorktreeHasNoManager ==
    \A w \in Worktrees \ worktrees :
        /\ w \notin DOMAIN checkpointManagers
        /\ \A m \in DOMAIN mgr :
              mgr[m].workDir = w => mgr[m].checkpointTimer # "armed"

(* The rule of the claim C16, on the characters of a name *)
AcceptableName(n) ==
    /\ ByteLen(n) >= 1 /\ ByteLen(n) <= MaxBranchLen
    /\ checkRefFormat(n)
    /\ \A i \in 1..Len(n) : n[i] \notin {"~", "^", ":", "?", "*", "[", "\\", " "}
    /\ \A i \in 1..(Len(n) - 1) : ~(n[i] = "." /\ n[i + 1] = ".")
    /\ n[1] \notin {"/", "."}
    /\ n[Len(n)] \notin {"/", "."}

(* C16: a name is accepted exactly when it is 1 to 100 bytes long, passes
   git check-ref-format, holds none of the forbidden patterns and neither
   starts nor ends with "/" or "."; a name handed to renameBranch by the
   automatic path (after trimming) or by the manual path is such a name *)
AcceptedExactlyWhenValid ==
    ctOut # <<>> =>
        /\ ctOut[1] = AcceptableName(ctIn)
        /\ ctOut[2] # <<>> => AcceptableName(TrimSpace(ctIn))
        /\ ctOut[3] # <<>> => AcceptableName(ctIn)

(* a name of exactly 100 bytes was validated and handed to renameBranch *)
LongestNameAccepted ==
    /\ ctIn = <<LongRun, "a">>
    /\ ctOut = <<TRUE, ctIn, ctIn>>

(* the first of name, name-1, ..., name-100 that is not a branch of bs, <<>>
   when all of them are *)
Candidate(name, i) == IF i = 0 THEN name ELSE Numbered(name, i)

FirstFree(name, bs) ==
    LET free == {i \in 0..CollisionLimit : ~BranchExists(bs, Candidate(name, i))}
    IN  IF free = {} THEN <<>>
        ELSE Candidate(name, CHOOSE i \in free : \A j \in free : i <= j)

(* C15: the automatic and the manual path both hand to renameBranch the first
   free name of name, name-1, ..., name-100, and give up only when all of
   them are taken *)
CollisionPicksFirstFree ==
    ctOut # <<>> =>
        /\ ctOut[1] = FirstFree(ctIn.newBranch, ctIn.branches)
        /\ ctOut[2] = FirstFree(ctIn.newBranch, ctIn.branches)

(* a call of TriggerBranchRename returns in this step *)
TriggerReturns == lastRename'.n = lastRename.n + 1

(* C17 as claimed: a valid custom name is always renamed to, under the
   collision policy of the automatic graduation, unless no name is free *)
ManualRenameAlwaysRenames ==
    [][\A w \in Worktrees :
          LET custom == lastRename'.custom
              target == resolveCollision(git[w].branches, custom, custom, 1)
          IN  (/\ TriggerReturns
               /\ custom # <<>>
               /\ isValidGitBranchName(custom)
               /\ target # <<>>)
              => /\ lastRename'.err = "nil"
                 /\ git'[w].head = target
                 /\ registry'[w].branch = target]_vars

(* C17 amended: an error leaves the branch, the Registry and the managers as
   they were; without a manager for the path every call returns an error; an
   invalid custom name returns an error; a call with a custom name that
   returns no error has put the worktree and the Registry on the name the
   collision policy of the automatic graduation picks; an empty name returns
   an error when no title is current, and otherwise starts a worker on the
   current title and changes nothing itself *)
ManualRenameWhenManagerExists ==
    [][\A w \in Worktrees :
          LET custom == lastRename'.custom
              err    == lastRename'.err
              has    == w \in DOMAIN checkpointManagers
              m      == checkpointManagers[w]
              target == resolveCollision(git[w].branches, custom, custom, 1)
          IN  TriggerReturns =>
                /\ err # "nil" => UNCHANGED <<git, registry, mgr>>
                /\ ~has => err # "nil"
                /\ (custom # <<>> /\ ~isValidGitBranchName(custom)) => err # "nil"
                /\ (custom # <<>> /\ err = "nil") =>
                      /\ has /\ isValidGitBranchName(custom) /\ target # <<>>
                      /\ git'[w].head = target
                      /\ registry'[w].branch = target
                      /\ mgr' = mgr
                /\ (custom = <<>> /\ has /\ mgr[m].currentTitle = <<>>) => err # "nil"
                /\ (custom = <<>> /\ err = "nil") =>
                      /\ has /\ mgr[m].currentTitle # <<>>
                      /\ UNCHANGED <<git, registry>>
                      /\ mgr'[m].tw = [NoWorker EXCEPT !.pc = "start",
                                                       !.title = mgr[m].currentTitle]]_vars

(* a custom name that was taken has been renamed to its first free variant *)
RenamedToNumberedCustomName ==
    /\ lastRename = [n |-> 1, custom |-> LoginBranch, err |-> "nil"]
    /\ git[Worktree].head = Numbered(LoginBranch, 1)
    /\ registry[Worktree].branch = Numbered(LoginBranch, 1)
    /\ Worktree \in DOMAIN checkpointManagers

(* C14: when renameBranch returns without error to a graduation worker, the
   worktree is on the new branch and the Registry's branch passes in that
   step from the old name to the new name *)
GraduationRenamesEverywhere ==
    [][\A m \in DOMAIN mgr, slot \in {"gw", "tw"} :
          (mgr[m][slot].pc = "registry" /\ mgr'[m][slot].pc = "exit") =>
              LET w == mgr[m].workDir
              IN  /\ git'[w].head = mgr[m][slot].new
                  /\ registry[w].branch = mgr[m][slot].cur
                  /\ registry'[w].branch = mgr[m][slot].new]_vars

(* C18 as claimed: for every Registry state, loading what was saved gives the
   state back, and saving again writes the same document *)
SaveLoadRestoresEveryState ==
    ctOut # <<>> => (ctOut[2] = ctIn /\ ctOut[3] = ctOut[1])

ValidUTF8(str) == \A i \in 1..Len(str) : str[i] # BadByte

ValidStrings(st) ==
    /\ \A k \in DOMAIN st.repositories :
          ValidUTF8(k) /\ ValidUTF8(st.repositories[k].Path)
    /\ \A k \in DOMAIN st.worktrees :
          /\ ValidUTF8(k)
          /\ ValidUTF8(st.worktrees[k].RepoID)
          /\ ValidUTF8(st.worktrees[k].Branch)

(* C18 amended: for every Registry state whose IDs and string fields are valid
   UTF-8, loading what was saved gives the state back and saving again writes
   the same document; when only the IDs are valid UTF-8, saving again still
   writes the same document *)
SaveLoadRestoresValidStrings ==
    ctOut # <<>> =>
        /\ ValidStrings(ctIn) => (ctOut[2] = ctIn /\ ctOut[3] = ctOut[1])
        /\ (\A k \in DOMAIN ctIn.repositories \cup DOMAIN ctIn.worktrees : ValidUTF8(k))
              => ctOut[3] = ctOut[1]

(* a Registry with two repositories and a dirty worktree went through save,
   load and save *)
TwoRepositoriesRestored ==
    /\ ctOut # <<>>
    /\ DOMAIN ctIn.repositories = {<<"a">>, <<Replacement>>}
    /\ \E k \in DOMAIN ctIn.worktrees : ctIn.worktrees[k].IsDirty
    /\ ctOut[2] = ctIn
    /\ Len(ctOut[1].repositories) = 2

(* C20: every read of the Registry's maps and of a worktree's fields is made
   under the read or the write lock, every write under the write lock *)
AccessUnderLock == access.held

(* C23: decoding the transcript directory name of an absolute worktree path
   gives the path back *)
DecodeReversesEncode == ctOut # <<>> => ctOut[2] = ctIn

(* C22: the name the automatic path hands to renameBranch, which is the
   worktree's branch once the graduation has succeeded, does not satisfy the
   scratch-branch predicate *)
GraduatedNameIsNotScratch ==
    ctOut # <<>> => (ctOut[2] # <<>> => ~IsCatnipBranch(ctOut[2]))

(* dir lies under the configured workspace directory and holds a .git entry *)
WorktreeValid(dir) ==
    /\ HasPrefix(dir, getWorkspaceDir) /\ Len(dir) > Len(getWorkspaceDir)
    /\ dir \in GitDirs

(* C25: every event that passed the callers' test, from the log or the pty,
   and every key of the manager map is a path under the configured workspace
   directory that holds a .git entry *)
ManagersOnlyInWorkspace ==
    /\ \A t \in Threads : th[t].pc # "idle" => WorktreeValid(th[t].workDir)
    /\ \A w \in DOMAIN checkpointManagers : WorktreeValid(w)

(* a line with exactly three "|" whose last field is not empty after
   normalization *)
FourPartsWithTitle(line) ==
    /\ Cardinality({i \in 1..Len(line) : line[i] = "|"}) = 3
    /\ LET last == CHOOSE i \in 1..Len(line) : line[i] = "|" /\
                       \A j \in (i + 1)..Len(line) : line[j] # "|"
       IN  cleanTitle(SubSeq(line, last + 1, Len(line))) # <<>>

(* a turn of the loop of readTitlesLog passes its line to handleTitleChange
   only when the line has four parts and a title; with any other line it
   leaves the dedup map, the callers, the managers, the repository, the
   session store and the Registry as they are *)
OnlyWellFormedLinesForwarded ==
    (titlesLog.reading /\ titlesLog'.reading) =>
        /\ Len(hist') > Len(hist) => FourPartsWithTitle(titlesLog'.line)
        /\ ~FourPartsWithTitle(titlesLog'.line) =>
              UNCHANGED <<recentTitles, hist, th, mgrVars, repoVars>>

(* C26: a log line is forwarded only when it has four parts and a title, any
   other line is discarded without a change of state, and it does not stop
   the lines after it from being read: when readTitlesLog returns, it has read
   the file to its end *)
DiscardedLineStopsNothing ==
    [][/\ OnlyWellFormedLinesForwarded
       /\ (titlesLog.reading /\ ~titlesLog'.reading) =>
             titlesLog'.lastLogPosition = Len(titlesLog.file)]_vars

(* a timer of manager m is pending, or a callback of one has started *)
TimerLive(m) ==
    \/ mgr[m].checkpointTimer \in {"armed", "fired"}
    \/ mgr[m].orphans > 0
    \/ mgr[m].waiting > 0
    \/ mgr[m].cb = "checkpoint"

(* C30: whenever a timer of a manager is pending or its callback runs, the
   manager's current title is not empty *)
TimerOnlyWithTitle ==
    \A m \in DOMAIN mgr : TimerLive(m) => mgr[m].currentTitle # <<>>

(* a callback is inside CreateCheckpoint while the next timer is not yet
   armed, under the title of the one event that was handled *)
CallbackRunsUnderTitle ==
    \E m \in DOMAIN mgr :
        /\ mgr[m].cb = "checkpoint"
        /\ mgr[m].checkpointTimer = "fired"
        /\ mgr[m].currentTitle = <<"a">>
        /\ processed[mgr[m].workDir] = 1

(* the timers of manager m that are pending, and the callbacks of its timers
   that have started and not returned *)
TimerCount(m) ==
    (IF mgr[m].checkpointTimer = "armed" THEN 1 ELSE 0)
    + mgr[m].orphans + mgr[m].waiting
    + (IF mgr[m].cb = "checkpoint" THEN 1 ELSE 0)

(* C28: a manager has at most one debounce timer pending or executing *)
AtMostOneTimer == \A m \in DOMAIN mgr : TimerCount(m) <= 1

(* the steps of a timer callback of manager m: it takes timerMutex and makes
   the dirty check; it returns from CreateCheckpoint; it returns *)
CallbackChecks(m)  == mgr'[m].waiting = mgr[m].waiting - 1
CallbackCommits(m) == mgr[m].cb = "checkpoint" /\ mgr'[m].cb = "none"
CallbackReturns(m) == (CallbackChecks(m) /\ mgr'[m].cb = "none") \/ CallbackCommits(m)

(* C29: a timer callback of a manager that is not stopped and has a title
   leaves the title and the latch as they are from the moment it holds the
   lock to its return; it makes no commit and leaves the repository alone
   when the tree is clean or the dirty check fails; when it calls
   CreateCheckpoint the tree is dirty, at most one commit is added, with the
   title as message, and the branch stays; and when it returns, the handle
   names an armed timer, whatever the dirty check and the checkpoint gave *)
TimerFireCheckpointsAndRearms ==
    [][\A m \in DOMAIN mgr :
          (~mgr[m].stopped /\ mgr[m].currentTitle # <<>>) =>
              LET w == mgr[m].workDir
              IN  /\ (CallbackChecks(m) \/ mgr[m].lock = "timer") =>
                        /\ mgr'[m].currentTitle = mgr[m].currentTitle
                        /\ mgr'[m].renamingInProgress = mgr[m].renamingInProgress
                  /\ CallbackChecks(m) =>
                        /\ git'[w] = git[w]
                        /\ ~HasUncommittedChanges(git[w]) => mgr'[m].cb = "none"
                  /\ CallbackCommits(m) =>
                        /\ HasUncommittedChanges(git[w])
                        /\ git'[w].commits \in
                              {git[w].commits,
                               Append(git[w].commits, mgr[m].currentTitle)}
                        /\ git'[w].head = git[w].head
                  /\ CallbackReturns(m) => mgr'[m].checkpointTimer = "armed"]_vars

(* the one title event was handled without a commit, a timer callback then
   failed to commit the dirty tree, and the timer is armed again *)
CheckpointFailedTimerRearmed ==
    \E m \in DOMAIN mgr :
        LET w == mgr[m].workDir
        IN  /\ processed[w] = 1 /\ nEvents = 1
            /\ lastGit.err
            /\ git[w].commits = <<>>
            /\ HasUncommittedChanges(git[w])
            /\ mgr[m].checkpointTimer = "armed"
            /\ mgr[m].cb = "none" /\ mgr[m].waiting = 0

(* C27: of one manager at most one goroutine is inside checkAndRenameBranch
   at any time, whether HandleTitleChange or TriggerBranchRename started it *)
AtMostOneRenameInFlight ==
    \A m \in DOMAIN mgr : mgr[m].gw.pc = "none" \/ mgr[m].tw.pc = "none"

(* C21: when no operation on the Registry is under way, state.json holds the
   worktrees of the Registry as they are in memory *)
SnapshotFollowsRegistry ==
    (mu = Unlocked /\ \A o \in DOMAIN ops : ops[o] = IdleOp)
        => saved = Snapshot(worktrees, registry)

(* the worktree w has a current title and uncommitted changes, and its
   manager is not stopped *)
Pending(w) ==
    \E m \in DOMAIN mgr : /\ mgr[m].workDir = w
                          /\ mgr[m].currentTitle # <<>>
                          /\ ~mgr[m].stopped
                          /\ HasUncommittedChanges(git[w])

(* a step in which the manager ran git on uncommitted changes and they are
   still uncommitted: the dirty check of the callback returned an error, or
   git add or git commit failed in CreateCheckpoint or commitPreviousWork *)
GitLeavesChanges ==
    \E w \in Worktrees :
       /\ HasUncommittedChanges(git[w])
       /\ HasUncommittedChanges(git'[w])
       /\ \E m \in DOMAIN mgr :
             /\ mgr[m].workDir = w
             /\ \/ mgr[m].cb = "checkpoint" /\ mgr'[m].cb = "none"
                \/ /\ mgr'[m].waiting < mgr[m].waiting
                   /\ mgr[m].currentTitle # <<>>
                   /\ mgr'[m].cb # "checkpoint"
                \/ \E t \in Threads :
                      /\ th[t].pc = "handle" /\ th'[t].pc = "idle" /\ th[t].m = m
                      /\ GetPreviousTitle(session[w]) \notin {<<>>, th[t].title}

(* C24: under fair scheduling, and unless git fails on the worktree again
   and again for ever, a worktree with a current title, uncommitted changes
   and a manager that is not stopped gets to have no uncommitted changes,
   also when title events for it keep arriving *)
PendingChangesGetCommitted ==
    \/ []<><<GitLeavesChanges>>_vars
    \/ \A w \in Worktrees : Pending(w) ~> ~HasUncommittedChanges(git[w])

(* the step enters an event in hist that the dedup stage dropped *)
DroppedStep == /\ Len(hist') = Len(hist) + 1
               /\ ~hist'[Len(hist')].fwd

(* C40: a title event that the dedup stage drops evicts the entries older
   than 5 s and does nothing else: no manager is created, no caller goes on
   to HandleTitleChange, no timer, title, repository, session or Registry
   entry changes, and the entry of its key keeps its timestamp and source *)
DroppedEventOnlyEvicts ==
    [][DroppedStep =>
         LET ev  == hist'[Len(hist')]
             key == Key(ev.workDir, ev.title)
         IN  /\ mgr' = mgr
             /\ checkpointManagers' = checkpointManagers
             /\ th' = th
             /\ processed' = processed
             /\ nEvents' = nEvents
             /\ git' = git /\ session' = session /\ registry' = registry
             /\ DOMAIN recentTitles' =
                    {k \in DOMAIN recentTitles :
                        recentTitles[k].timestamp >= now - EvictAfter}
             /\ \A k \in DOMAIN recentTitles' : recentTitles'[k] = recentTitles[k]
             /\ key \in DOMAIN recentTitles']_vars

(* the event entered last was dropped at a later time than the one its
   key's entry in recentTitles bears *)
DroppedEventLeftEntryAlone ==
    /\ hist # <<>>
    /\ ~hist[Len(hist)].fwd
    /\ LET ev == hist[Len(hist)]
       IN  /\ Key(ev.workDir, ev.title) \in DOMAIN recentTitles
           /\ recentTitles[Key(ev.workDir, ev.title)].timestamp < ev.time

(* GitAddCommitGetHash returned the empty hash and no error in this step:
   nothing was staged after git add, or the directory is no repository *)
NothingToCommit == lastGit' = NoResult

(* it returned an error and made no commit on w: git add or git commit failed *)
AddOrCommitFailed(w) == lastGit'.err /\ git'[w].commits = git[w].commits

(* a caller takes the HandleTitleChange step that calls commitPreviousWork:
   the Session Store ends with a title other than the new one *)
CommitsPreviousWork(t) ==
    /\ th[t].pc = "handle" /\ th'[t].pc = "idle"
    /\ GetPreviousTitle(session[th[t].workDir]) \notin {<<>>, th[t].title}

(* C36: when commitPreviousWork finds nothing staged after git add, or no
   repository, it makes no commit, leaves HEAD where it was, writes no hash to
   the Session Store and does not refresh the Registry; when git add or git
   commit fails, the Session Store and the Registry are left as they were.
   Stated for its two callers, Stop and HandleTitleChange, the latter adding
   its own entry for the new title. *)
CommitPreviousWorkSilentNoOp ==
    [][/\ \A m \in DOMAIN mgr :
             (StopReturns(m) /\ mgr[m].currentTitle # <<>>) =>
                LET w == mgr[m].workDir
                IN  /\ NothingToCommit =>
                          /\ git'[w].commits = git[w].commits
                          /\ git'[w].head = git[w].head
                          /\ session'[w] = session[w]
                          /\ registry'[w] = registry[w]
                    /\ AddOrCommitFailed(w) =>
                          /\ session'[w] = session[w]
                          /\ registry'[w] = registry[w]
       /\ \A t \in Threads :
             CommitsPreviousWork(t) =>
                LET w == th[t].workDir
                    added == Append(session[w], [title |-> th[t].title, hash |-> 0])
                IN  /\ NothingToCommit =>
                          /\ git'[w].commits = git[w].commits
                          /\ git'[w].head = git[w].head
                          /\ session'[w] = added
                          /\ registry'[w] = registry[w]
                    /\ AddOrCommitFailed(w) =>
                          /\ session'[w] = added
                          /\ registry'[w] = registry[w]]_vars

(* a manager was stopped with a title and an edited file, git failed, and
   nothing was recorded: no commit, no hash in the Session Store, the
   Registry without the edit *)
StopFailedNothingRecorded ==
    \E m \in DOMAIN mgr :
        LET w == mgr[m].workDir
        IN  /\ mgr[m].stopped
            /\ mgr[m].currentTitle # <<>>
            /\ lastGit.err
            /\ HasUncommittedChanges(git[w])
            /\ git[w].commits = <<>>
            /\ \A i \in 1..Len(session[w]) : session[w][i].hash = 0
            /\ ~registry[w].dirty /\ registry[w].commitCount = 0

(* C35: when git checkout -b fails, renameBranch returns an error, deletes
   no branch and leaves the Registry's branch as it was; when only the
   deletion of the old branch fails, it goes on, sets the Registry's branch to
   the new name and returns no error.  Stated for renameBranch as the
   graduation worker runs it, call by call, and as TriggerBranchRename runs
   it with a custom name. *)
RenameBranchErrorHandling ==
    [][/\ \A m \in DOMAIN mgr, slot \in {"gw", "tw"} :
             LET w  == mgr[m].workDir
                 wk == mgr[m][slot]
             IN  /\ (wk.pc = "checkout" /\ mgr'[m][slot].pc = "exit") =>
                        /\ git'[w] = git[w]
                        /\ registry'[w] = registry[w]
                 /\ (wk.pc = "delete" /\ mgr'[m][slot].pc # "delete") =>
                        /\ mgr'[m][slot].pc = "registry"
                        /\ mgr'[m][slot].new = wk.new
                        /\ git'[w].head = git[w].head
                        /\ git'[w].branches \in
                               {git[w].branches, git[w].branches \ {wk.cur}}
                 /\ (wk.pc = "registry" /\ mgr'[m][slot].pc # "registry") =>
                        registry'[w].branch = wk.new
       /\ \A w \in Worktrees :
             (TriggerReturns /\ lastRename'.custom # <<>>) =>
                /\ lastRename'.err = "failed to rename branch" =>
                       /\ git'[w] = git[w]
                       /\ registry'[w] = registry[w]
                /\ (lastRename'.err = "nil" /\ w \in DOMAIN checkpointManagers) =>
                       /\ git'[w].head # git[w].head
                       /\ git'[w].branches \ {git[w].head} =
                              (git[w].branches \cup {git'[w].head}) \ {git[w].head}
                       /\ registry'[w].branch = git'[w].head]_vars

(* a worktree renamed by hand whose old branch is still there: the deletion
   failed, the worktree is on the new branch and the Registry names it *)
RenamedWithOldBranchLeft ==
    /\ lastRename = [n |-> 1, custom |-> FixBranch, err |-> "nil"]
    /\ git[Worktree].head = FixBranch
    /\ ScratchBranch \in git[Worktree].branches
    /\ registry[Worktree].branch = FixBranch

(* the worker HandleTitleChange started gives up on the answer of
   CreateCompletion: an error or the deadline, an empty or invalid name, or no
   free name within the collision limit *)
GraduationAborts(m) == mgr[m].gw.pc = "llm" /\ mgr'[m].gw.pc = "exit"

(* its deferred function runs: the attempt is over *)
GraduationEnds(m) == mgr[m].gw.pc = "exit" /\ mgr'[m].gw.pc = "none"

(* the manager's title and timer, the repository and the Registry entry of
   its worktree are the same after the step *)
ManagerAndBranchKept(m) ==
    /\ mgr'[m].currentTitle = mgr[m].currentTitle
    /\ mgr'[m].checkpointTimer = mgr[m].checkpointTimer
    /\ mgr'[m].orphans = mgr[m].orphans
    /\ git'[mgr[m].workDir] = git[mgr[m].workDir]
    /\ registry'[mgr[m].workDir] = registry[mgr[m].workDir]

(* C34: a graduation attempt that is aborted leaves the manager's title and
   timer, the branch and the Registry as they were and, once its deferred
   function has run, the latch clear; and a title event handled with the
   latch clear on a worktree whose branch is a scratch branch can start a new
   worker, and does whenever it finds the branch to be one *)
AbortedGraduationIsRetried ==
    /\ [][\A m \in DOMAIN mgr :
             /\ GraduationAborts(m) => ManagerAndBranchKept(m) /\ mgr'[m].renamingInProgress
             /\ GraduationEnds(m) => ManagerAndBranchKept(m) /\ ~mgr'[m].renamingInProgress
             /\ \A t \in Threads :
                   (/\ th[t].pc = "handle" /\ th'[t].pc = "idle" /\ th[t].m = m
                    /\ ~mgr[m].renamingInProgress) =>
                       \/ /\ mgr'[m].renamingInProgress
                          /\ mgr'[m].gw = [NoWorker EXCEPT !.pc = "start",
                                                            !.title = th[t].title]
                       \/ /\ ~mgr'[m].renamingInProgress
                          /\ mgr'[m].gw = mgr[m].gw]_vars
    /\ [](\A t \in Threads :
             (/\ th[t].pc = "handle"
              /\ mgr[th[t].m].lock = "free"
              /\ ~mgr[th[t].m].renamingInProgress
              /\ IsCatnipBranch(git[th[t].workDir].head)) =>
                 ENABLED (/\ HandleTitleChange(t)
                          /\ mgr'[th[t].m].gw.pc = "start"))

(* the first title's attempt is over with the worktree still on its scratch
   branch, and the second title's event has started a new worker *)
SecondAttemptStarted ==
    \E m \in DOMAIN mgr :
        LET w == mgr[m].workDir
        IN  /\ Len(session[w]) = 2
            /\ mgr[m].gw = [NoWorker EXCEPT !.pc = "start", !.title = session[w][2].title]
            /\ mgr[m].renamingInProgress
            /\ mgr[m].currentTitle = session[w][2].title
            /\ mgr[m].checkpointTimer = "armed"
            /\ git[w].head = ScratchBranch
            /\ registry[w].branch = ScratchBranch

----------------------------------------------------------------------------
(* Every operation that touches a manager's title, timer handle or latch,
   side by side: title events from the terminal, the debounce timer, both
   graduation workers, the manual entry point and the shutdown *)

NextMutex ==
    \/ Alive /\ NotifyTitleChange(Worktree, <<"a">>)
    \/ \E t \in Threads : GetOrCreateManager(t)
    \/ \E t \in Threads : HandleTitleChange(t)
    \/ Timers
    \/ \E w \in Worktrees : AgentEdit(w)
    \/ Graduation
    \/ ManualGraduation
    \/ \E w \in Worktrees : TriggerBranchRename(w, <<>>)
    \/ StopBegin
    \/ \E w \in Worktrees : StopManager(w)
    \/ StopEnd

SpecMutex == Init /\ [][NextMutex]_vars

(* the step assigns the field currentTitle of manager m *)
WritesTitle(m) == mgr'[m].currentTitle # mgr[m].currentTitle

(* the step assigns the field renamingInProgress of manager m *)
WritesLatch(m) == mgr'[m].renamingInProgress # mgr[m].renamingInProgress

(* the step assigns the field checkpointTimer of manager m: a new timer is
   stored (the one it replaces is left over or was used up), or the stored
   one is stopped *)
WritesTimer(m) ==
    \/ mgr'[m].checkpointTimer = "armed" /\ mgr[m].checkpointTimer # "armed"
    \/ mgr'[m].orphans > mgr[m].orphans
    \/ mgr'[m].checkpointTimer = "stopped" /\ mgr[m].checkpointTimer # "stopped"

(* the step is the start of a timer callback of manager m, which reads
   currentTitle *)
CallbackReadsTitle(m) == mgr'[m].waiting < mgr[m].waiting

(* the step takes timerMutex of manager m, which was free, or is made by the
   callback that holds it *)
UnderTimerMutex(m) ==
    \/ mgr[m].lock = "free"
    \/ mgr[m].lock = "timer" /\ mgr[m].cb = "checkpoint" /\ mgr'[m].cb = "none"

(* C31: every write of a manager's current title, timer handle and latch, and
   the timer callback's read of the current title, is made by a step that
   holds the manager's lock: the lock was free when the step took it, or the
   step is the end of the callback that has held it since it began *)
FieldsWrittenUnderLock ==
    [][\A m \in DOMAIN mgr :
          (WritesTitle(m) \/ WritesLatch(m) \/ WritesTimer(m) \/ CallbackReadsTitle(m))
             => UnderTimerMutex(m)]_vars

(* a graduation worker is waiting to clear the latch while the timer callback
   holds the lock over its checkpoint *)
WorkerWaitsForCallback ==
    \E m \in DOMAIN mgr :
       /\ mgr[m].lock = "timer"
       /\ mgr[m].renamingInProgress
       /\ \E slot \in {"gw", "tw"} : mgr[m][slot].pc = "exit"

(* the callback of manager m is inside CreateCheckpoint: git add, git commit
   and git rev-parse run as external processes *)
InCreateCheckpoint(m) == mgr[m].cb = "checkpoint"

(* ClaudeMonitorService.Stop is inside its loop over checkpointManagers and
   holds managersMutex *)
HoldsManagersMutex == sup = "stopping"

(* the step runs git add and git commit for a worktree *)
RunsGitCommit == lastGit' # NoResult

(* C32: no git command runs while a manager's lock or the lock of the manager
   map is held: a callback inside CreateCheckpoint does not hold its
   manager's lock, and no step that runs git add and git commit is made by
   the shutdown while it holds the lock of the manager map *)
NoGitUnderLock ==
    /\ [](\A m \in DOMAIN mgr : InCreateCheckpoint(m) => mgr[m].lock = "free")
    /\ [][RunsGitCommit => ~HoldsManagersMutex]_vars

----------------------------------------------------------------------------
(* The title events log while it is written: the shell hook appends entries,
   one write or several per line, and the watcher starts a read after any of
   them *)

TailLines == {Entry(Worktree, <<"a">>), Entry(Worktree, <<"a", "a">>)}

(* the bytes of the file after its last newline: the line being written *)
Unfinished(file) ==
    LET nls == {i \in 1..Len(file) : file[i] = "\n"}
    IN  IF nls = {} THEN file
        ELSE SubSeq(file, (CHOOSE i \in nls : \A j \in nls : j <= i) + 1, Len(file))

NewlinesIn(file) == Cardinality({i \in 1..Len(file) : file[i] = "\n"})

IsPrefix(p, q) == Len(p) <= Len(q) /\ SubSeq(q, 1, Len(p)) = p

(* one write to the log: the next bytes of an entry and its newline, all of
   them or some *)
WriteTitlesLog ==
    /\ NewlinesIn(titlesLog.file) < MaxLines
    /\ \E l \in TailLines :
          LET whole == l \o <<"\n">>
              done  == Unfinished(titlesLog.file)
          IN  /\ IsPrefix(done, whole)
              /\ \E k \in (Len(done) + 1)..Len(whole) :
                    titlesLog' = [titlesLog EXCEPT
                                     !.file = @ \o SubSeq(whole, Len(done) + 1, k)]
    /\ lastGit' = NoResult
    /\ UNCHANGED <<ingestVars, exceptLog>>

InitTail ==
    /\ InitState(TRUE)
    /\ workspaceDirEnv = <<>>
    /\ titlesLog = NoLog
    /\ ctIn = <<>> /\ ctOut = <<>>

NextTail ==
    \/ WriteTitlesLog
    \/ ReadTitlesLogOpen
    \/ ReadTitlesLogScan
    \/ \E t \in Threads : GetOrCreateManager(t)
    \/ \E t \in Threads : HandleTitleChange(t)

SpecTail == InitTail /\ [][NextTail]_vars

(* the step is a turn of the loop of readTitlesLog that got a token *)
TokenScanned ==
    titlesLog.reading /\ titlesLog'.reading /\ titlesLog'.offset > titlesLog.offset

(* offset is the start of a line of the file *)
LineStart(file, offset) == offset = 0 \/ file[offset] = "\n"

(* C33: every line of the log is handed over once and in file order: a token
   the reader gets is a line of the file from its first byte to its newline,
   starting where the one before ended; when a read ends the remembered
   offset is the end of the bytes consumed; the remembered offset never
   decreases *)
LinesReadOnceInOrder ==
    [][/\ TokenScanned =>
            /\ LineStart(titlesLog.file, titlesLog.offset)
            /\ titlesLog.file[titlesLog'.offset] = "\n"
            /\ titlesLog'.line =
                  SubSeq(titlesLog.file, titlesLog.offset + 1, titlesLog'.offset - 1)
       /\ (titlesLog.reading /\ ~titlesLog'.reading) =>
            titlesLog'.lastLogPosition = titlesLog.offset
       /\ titlesLog'.lastLogPosition >= titlesLog.lastLogPosition]_vars

----------------------------------------------------------------------------
(* Panics in the background tasks *)

BackgroundTasks == {"monitorTitlesLog", "monitorClaudeSessions",
                    "checkAndRenameBranch", "checkpointTimer"}

(* a go statement, or a function run by time.AfterFunc: a panic that is not
   recovered inside the goroutine ends the process *)
GoStatement(panics) == IF panics THEN "crashed" ELSE "returned"

(* recovery.SafeGo: the deferred function recovers and logs *)
SafeGo(panics) == IF panics THEN "recovered" ELSE "returned"

(* how the service starts each of its tasks: none of them through
   recovery.SafeGo or recovery.SafeGoWithCleanup *)
Launched(task, panics) == GoStatement(panics)

(* the task has been started and has not returned *)
TaskRunning(task) ==
    CASE task = "monitorTitlesLog"      -> sup = "running"
      [] task = "monitorClaudeSessions" -> sup = "running"
      [] task = "checkAndRenameBranch"  ->
            \E m \in DOMAIN mgr, slot \in {"gw", "tw"} : mgr[m][slot].pc # "none"
      [] task = "checkpointTimer"       ->
            \E m \in DOMAIN mgr : mgr[m].waiting > 0 \/ mgr[m].cb = "checkpoint"

(* a running task panics *)
TaskPanics(task) ==
    /\ TaskRunning(task)
    /\ Launched(task, TRUE) = "crashed"
    /\ sup' = "crashed"
    /\ lastGit' = NoResult
    /\ UNCHANGED <<ingestVars, mgrVars, repoVars, cleanVars, worktrees, lastRename,
                   lockVars, cfgVars>>

(* the service as in Spec, with panics, until the process ends *)
ProcessRuns == sup # "crashed"

NextPanic ==
    \/ ProcessRuns /\ Ingest
    \/ ProcessRuns /\ Timers
    \/ ProcessRuns /\ Graduation
    \/ ProcessRuns /\ \E w \in Worktrees : AgentEdit(w)
    \/ ProcessRuns /\ \E task \in BackgroundTasks : TaskPanics(task)

SpecPanic == Init /\ [][NextPanic]_vars

(* C37: a panic inside a background task of the supervisor never ends the
   process *)
PanicNeverEndsTheProcess == sup # "crashed"

----------------------------------------------------------------------------
(* The same operations under a scheduler: a goroutine that can go on does;
   one that waits for a sync.Mutex gets it when it is free again and again
   (a waiter of more than 1 ms is handed the lock next); git commands and
   the LLM request return.  Timers need not fire. *)

(* the steps of one caller, of the callbacks of one manager, of one worker,
   of the shutdown *)
CallerSteps(t)  == GetOrCreateManager(t) \/ HandleTitleChange(t)
CallbackSteps(m) == TimerCallback(m) \/ TimerCheckpoint(m)
WorkerSteps(m, slot) ==
    \/ WorkerStart(m, slot) \/ WorkerSuggest(m, slot) \/ WorkerCheckout(m, slot)
    \/ WorkerDelete(m, slot) \/ WorkerRegistry(m, slot) \/ WorkerExit(m, slot)
StopSteps == StopEnd \/ \E w \in Worktrees : StopManager(w)

FairMutex ==
    /\ \A t \in Threads : SF_vars(CallerSteps(t))
    /\ \A m \in 1..MaxMgrs : /\ SF_vars(CallbackSteps(m))
                             /\ \A slot \in {"gw", "tw"} : SF_vars(WorkerSteps(m, slot))
    /\ SF_vars(StopSteps)

(* the runs in which every LLM request of a graduation worker fails or runs
   into its deadline: the worker takes the manager's lock in its deferred
   function and no lock before that *)
NextMutexFair ==
    \/ Alive /\ NotifyTitleChange(Worktree, <<"a">>)
    \/ \E t \in Threads : GetOrCreateManager(t)
    \/ \E t \in Threads : HandleTitleChange(t)
    \/ Timers
    \/ \E w \in Worktrees : AgentEdit(w)
    \/ \E m \in 1..MaxMgrs, slot \in {"gw", "tw"} : WorkerStart(m, slot)
    \/ \E m \in 1..MaxMgrs, slot \in {"gw", "tw"} :
          WorkerSuggest(m, slot) /\ mgr'[m][slot].pc = "exit"
    \/ \E m \in 1..MaxMgrs, slot \in {"gw", "tw"} : WorkerExit(m, slot)
    \/ \E w \in Worktrees : TriggerBranchRename(w, <<>>)
    \/ StopBegin
    \/ \E w \in Worktrees : StopManager(w)
    \/ StopEnd

SpecMutexFair == Init /\ [][NextMutexFair]_vars /\ FairMutex

(* somebody is about to take timerMutex of manager m *)
NeedsTimerMutex(m) ==
    \/ mgr[m].waiting > 0
    \/ \E slot \in {"gw", "tw"} : mgr[m][slot].pc = "exit"
    \/ \E t \in Threads : th[t].pc = "handle" /\ th[t].m = m
    \/ sup = "stopping" /\ \E w \in DOMAIN checkpointManagers : checkpointManagers[w] = m

(* C38: the supervisor and its managers never deadlock.  No operation waits
   for a lock in a cycle: a callback that holds a manager's lock can always
   finish, a free lock that somebody needs can always be taken, and the
   shutdown that holds the manager map can always go on.  Every operation
   under way completes: a caller returns, a callback releases the lock, a
   worker ends, Stop returns. *)
NoDeadlock ==
    /\ [](\A m \in DOMAIN mgr :
            /\ mgr[m].lock = "timer" => ENABLED TimerCheckpoint(m)
            /\ (mgr[m].lock = "free" /\ NeedsTimerMutex(m)) =>
                  ENABLED (\/ TimerCallback(m)
                           \/ \E slot \in {"gw", "tw"} : WorkerExit(m, slot)
                           \/ \E t \in Threads : HandleTitleChange(t) /\ th[t].m = m
                           \/ \E w \in Worktrees : StopManager(w)))
    /\ [](sup = "stopping" =>
            ENABLED (\/ StopEnd
                     \/ \E w \in Worktrees : StopManager(w)
                     \/ \E m \in DOMAIN mgr : TimerCheckpoint(m)))
    /\ \A t \in Threads : (th[t].pc # "idle") ~> (th[t].pc = "idle")
    /\ \A m \in 1..MaxMgrs :
          /\ (m \in DOMAIN mgr /\ mgr[m].lock = "timer")
                ~> (m \in DOMAIN mgr /\ mgr[m].lock = "free")
          /\ \A slot \in {"gw", "tw"} :
                (m \in DOMAIN mgr /\ mgr[m][slot].pc # "none")
                   ~> (m \in DOMAIN mgr /\ mgr[m][slot].pc = "none")
    /\ (sup = "stopping") ~> (sup = "stopped")

(* the shutdown holds the manager map and waits for the lock of a manager
   whose callback is inside its checkpoint, and so does the deferred function
   of a graduation worker *)
StopWaitsForCallback ==
    /\ sup = "stopping"
    /\ \E w \in DOMAIN checkpointManagers :
          /\ mgr[checkpointManagers[w]].lock = "timer"
          /\ \E slot \in {"gw", "tw"} : mgr[checkpointManagers[w]][slot].pc = "exit"

----------------------------------------------------------------------------
(* CleanupMergedWorktrees *)

(* the loop body up to s.mu.Unlock(), under s.mu.Lock: the worktree is passed
   over when its entry is dirty or has commits ahead, or when git does not
   list its branch as merged; otherwise the lock is released for the
   deletion.  Whether the branch is merged is the main repository's matter
   and is left open. *)
CleanupCheck(w) ==
    /\ ops["cleanup"].pc = "idle"
    /\ mu = Unlocked
    /\ w \in worktrees
    /\ \E isMerged \in BOOLEAN :
          ops' = [ops EXCEPT !["cleanup"] =
                     IF registry[w].dirty \/ registry[w].commitCount > 0 \/ ~isMerged
                     THEN IdleOp
                     ELSE [pc |-> "delete", w |-> w]]
    /\ lastGit' = NoResult
    /\ RegistryOnly /\ UNCHANGED <<git, registry, mu, access>>

(* s.DeleteWorktree(worktreeID) without the lock held, which takes it again,
   then s.mu.Lock() and the end of the loop: the worktree is reported as
   cleaned up when DeleteWorktree returned no error *)
CleanupDelete ==
    /\ ops["cleanup"].pc = "delete"
    /\ mu = Unlocked
    /\ LET w == ops["cleanup"].w
       IN  IF w \notin worktrees
           THEN UNCHANGED <<worktrees, git, saved>>
           ELSE \E ok \in BOOLEAN :
                   IF ok
                   THEN /\ worktrees' = worktrees \ {w}
                        /\ git' = [git EXCEPT ![w].staged = FALSE, ![w].dirty = FALSE]
                        /\ saved' = Snapshot(worktrees \ {w}, registry)
                   ELSE UNCHANGED <<worktrees, git, saved>>
    /\ ops' = [ops EXCEPT !["cleanup"] = IdleOp]
    /\ lastGit' = NoResult
    /\ UNCHANGED <<ingestVars, mgrVars, session, registry, edits, cleanVars, sup,
                   lastRename, mu, access, workspaceDirEnv, titlesLog>>

(* the Registry operations with the agent at work and the cleanup *)
NextCleanup ==
    \/ \E o \in {"merge", "sync"}, w \in Worktrees : LookupLock(o, w)
    \/ \E o \in {"merge", "sync"} : Lookup(o)
    \/ MergeFindRepo
    \/ MergeGit
    \/ MergeLock
    \/ MergeUpdate
    \/ SyncApply /\ Len(git[ops["sync"].w].commits) < MaxSyncs
    \/ SyncUpdateStatus
    \/ \E w \in Worktrees : DeleteWorktree(w)
    \/ ListWorktrees
    \/ \E w \in Worktrees : AgentEdit(w)
    \/ \E w \in Worktrees : CleanupCheck(w)
    \/ CleanupDelete

SpecCleanup == Init /\ [][NextCleanup]_vars

(* the step is the deletion made by CleanupMergedWorktrees, reported as
   cleaned up *)
CleanedUp ==
    /\ ops["cleanup"].pc = "delete"
    /\ ops'["cleanup"].pc = "idle"
    /\ worktrees' # worktrees

(* C39: CleanupMergedWorktrees deletes no worktree whose Registry entry is
   dirty or has commits ahead at the moment it is deleted, and a worktree it
   reports as cleaned up is not in the Registry afterwards *)
CleanupDeletesOnlyCleanWorktrees ==
    [][CleanedUp =>
          /\ ~registry[ops["cleanup"].w].dirty
          /\ registry[ops["cleanup"].w].commitCount = 0
          /\ ops["cleanup"].w \notin worktrees']_vars
====
